---- MODULE Spec2Model ----
(***************************************************************************)
(* The headless rendering pipeline of src/utils/image_utils.py: the        *)
(* availability probe, the browser singleton, the two render backends and  *)
(* the fallback between them; and the font tables of                       *)
(* src/utils/app_utils.py: the hardcoded families, the cache of discovered *)
(* fonts and the functions that merge the two; and the Node-RED plugin of  *)
(* src/plugins/node-red/node-red.py: the fetch of a JSON document, the     *)
(* divisions of the settings form and the lines they display.              *)
(*                                                                         *)
(* A Python function is an operator from the world before the call to the  *)
(* SET of its possible results: one result per outcome the environment can *)
(* choose for the library and system calls the function makes (an import   *)
(* that fails, a launch that raises, a child process that exits non-zero). *)
(* A result carries the world after the call, the returned value, whether  *)
(* an exception is propagating (exc) and whether the call blocks for ever  *)
(* (hang).  Calls are sequential: the module keeps no lock and the source  *)
(* defines no behaviour for concurrent callers.                            *)
(***************************************************************************)
EXTENDS Integers, Sequences, FiniteSets, TLC

VARIABLES
    playwright_available,  \* _playwright_available: "None", "True" or "False"
    playwright_browser,    \* _playwright_browser: 0 for None, else the session's id
    engines,               \* ids of the engines started and not stopped
    browsers,              \* ids of the browsers launched and not closed
    starts,                \* engines started so far (the last id given out)
    probes,                \* imports of the library tried so far
    pc,                    \* the caller: "idle", "returned" (holding the result
                           \* of the call in last) or "blocked" (in a call that
                           \* never returns)
    last,                  \* the call made last and how it ended
    previous,              \* the call made before that one (history)
    acquired,              \* session the last _get_playwright_browser returned,
                           \* 0 after a _cleanup_playwright call (history)
    host,                  \* PATH and filesystem of the host _find_chromium_binary
                           \* is called on
    found,                 \* the host the last _find_chromium_binary call ran on
                           \* and the path it returned (history)
    FONT_FAMILIES,         \* the dict FONT_FAMILIES: family -> list of variants
    DISCOVERED_FONTS,      \* _DISCOVERED_FONTS: None or the cached table
    fonts_dir,             \* the fonts directory on disk
    font_call,             \* the font call made last and how it ended, until
                           \* the caller goes on
    nr_call                \* the call of a NodeRed method made last, with its
                           \* arguments and how it ended, until the caller
                           \* goes on

render_vars == <<playwright_available, playwright_browser, engines, browsers,
                 starts, probes, pc, last, previous, acquired>>

locator_vars == <<host, found>>

font_vars == <<FONT_FAMILIES, DISCOVERED_FONTS, fonts_dir, font_call>>

nodered_vars == <<nr_call>>

vars == <<render_vars, locator_vars, font_vars, nodered_vars>>

---------------------------------------------------------------------------
\* Bounds of the model.
MaxStarts == 3
MaxProbes == 2

\* The requests the callers make.  target and html_str decide what the browser
\* is pointed at and shows; which statements run does not depend on them.
Dimensions == {<<800, 480>>, <<600, 400>>}
Timeouts == {0, 100}                 \* 0 stands for timeout_ms=None
Targets == {"https://example.invalid/"}
Htmls == {"<html><body>hi</body></html>"}

NoImage == [by |-> "None", width |-> 0, height |-> 0]
Img(by, dimensions) == [by |-> by, width |-> dimensions[1], height |-> dimensions[2]]

---------------------------------------------------------------------------
\* Worlds and results.

\* The world a call runs in.  A temporary file gets a fresh name and a browsing
\* context is isolated, so that a call can reach those it made itself and no
\* others: disk holds the temporary files, and contexts counts the browsing
\* contexts, that the call has created and that still exist.  log, attempts,
\* created, written and given record what the call did: written holds the
\* .html files whose content was written and whose name reached html_file_path,
\* given what each backend was handed (the arguments of new_context and
\* set_default_timeout, the flags of the command line).
World ==
    [avail |-> playwright_available, browser |-> playwright_browser,
     engines |-> engines, browsers |-> browsers, starts |-> starts,
     probes |-> probes, contexts |-> 0, disk |-> {},
     log |-> <<>>, attempts |-> <<>>, created |-> {}, written |-> {},
     given |-> <<>>]

\* A result: the world after the call and the value returned (image, session,
\* path or value, by the function), exc when an exception is propagating,
\* hang when the call never returns.
Ret(w) ==
    [w |-> w, image |-> NoImage, session |-> 0, path |-> 0, value |-> FALSE,
     exc |-> FALSE, hang |-> FALSE]

\* The call makes the library or system call e.
Ev(w, e) == [w EXCEPT !.log = Append(@, e)]

\* A backend attempt ends: tier "playwright" for the embedded functions,
\* "chromium" for the locator and the child process.
Att(w, tier, image) ==
    [w EXCEPT !.attempts = Append(@, [tier |-> tier, image |-> image])]

\* NamedTemporaryFile(delete=False): a name no existing file has.
Fresh(w) == CHOOSE n \in 1..(Cardinality(w.disk) + 1) :
                /\ n \notin w.disk
                /\ \A m \in 1..(n - 1) : m \in w.disk

Create(w, f) == [w EXCEPT !.disk = @ \cup {f}, !.created = @ \cup {f}]

Remove(w, f) == [w EXCEPT !.disk = @ \ {f}]

\* html_file.write(...) returned and html_file_path = html_file.name ran.
Written(w, f) == [w EXCEPT !.written = @ \cup {f}]

\* A backend is handed g.
Given(w, g) == [w EXCEPT !.given = Append(@, g)]

\* page.set_default_timeout(timeout_ms), on the page of the context opened last.
SetDefaultTimeout(w, timeout_ms) ==
    [w EXCEPT !.given[Len(w.given)].timeout = timeout_ms]

\* The decimal digits an f-string writes for the non-negative integer n.
RECURSIVE Digits(_)
Digits(n) == IF n < 10 THEN <<n>> ELSE Append(Digits(n \div 10), n % 10)

\* os.remove(path): raises FileNotFoundError when the file does not exist.
os_remove(w, f) ==
    IF f \in w.disk THEN Ret(Remove(w, f)) ELSE [Ret(w) EXCEPT !.exc = TRUE]

---------------------------------------------------------------------------
\* The embedded browser session manager.

\* A faulty variant of _check_playwright_available: `if not _playwright_available`
\* in place of `is None`, so that a failed import is tried again.
check_playwright_available_retrying(w) ==
    IF w.avail # "True"
    THEN { [Ret([Ev(w, "import") EXCEPT
                   !.avail = IF ok THEN "True" ELSE "False",
                   !.probes = @ + 1])
             EXCEPT !.value = ok] : ok \in BOOLEAN }
    ELSE { [Ret(w) EXCEPT !.value = TRUE] }

\* _check_playwright_available (lines 17-28).  The import is tried only while
\* the cached flag is None; it succeeds or raises ImportError, and either way
\* the flag is set.
check_playwright_available(w) ==
    IF w.avail = "None"
    THEN { [Ret([Ev(w, "import") EXCEPT
                   !.avail = IF ok THEN "True" ELSE "False",
                   !.probes = @ + 1])
             EXCEPT !.value = ok] : ok \in BOOLEAN }
    ELSE { [Ret(w) EXCEPT !.value = (w.avail = "True")] }

\* A faulty variant of _get_playwright_browser: the test of the singleton is
\* missing, and every call starts an engine and launches a browser.
get_playwright_browser_relaunching(w) ==
    LET id == w.starts + 1
        begun == Ev(w, "start")
        started == [Ev(begun, "launch") EXCEPT
                       !.starts = id, !.engines = @ \cup {id}]
        launched == [started EXCEPT !.browsers = @ \cup {id}, !.browser = id]
    IN  { Ret(begun), Ret(started), [Ret(launched) EXCEPT !.session = id] }

\* _get_playwright_browser (lines 30-46).  With the singleton unset:
\* sync_playwright().start() raises (nothing started), or the engine starts and
\* chromium.launch raises (the started engine is not stored), or both succeed
\* and the pair is stored.  Every exception is caught and None returned.
get_playwright_browser(w) ==
    IF w.browser = 0
    THEN LET id == w.starts + 1
             begun == Ev(w, "start")
             started == [Ev(begun, "launch") EXCEPT
                            !.starts = id, !.engines = @ \cup {id}]
             launched == [started EXCEPT
                            !.browsers = @ \cup {id}, !.browser = id]
         IN  { Ret(begun), Ret(started),
               [Ret(launched) EXCEPT !.session = id] }
    ELSE { [Ret(w) EXCEPT !.session = w.browser] }

\* _cleanup_playwright (lines 48-58).  browser.close(), playwright.stop() and
\* the assignment of None are in one try block: when close() or stop() raises,
\* the rest of the block is skipped and the exception is logged.
cleanup_playwright(w) ==
    IF w.browser # 0
    THEN LET id == w.browser
             closing == Ev(w, "close")
             closed == [closing EXCEPT !.browsers = @ \ {id}]
             stopping == Ev(closed, "stop")
             stopped == [stopping EXCEPT !.engines = @ \ {id}]
         IN  { Ret(closing), Ret(stopping),
               Ret([stopped EXCEPT !.browser = 0]) }
    ELSE { Ret(w) }

---------------------------------------------------------------------------
\* The embedded backend.

\* The render steps the two embedded functions share (lines 161-176 and
\* 197-219): new_context with the viewport and device_scale_factor=1,
\* new_page, set_default_timeout when timeout_ms is truthy, goto, screenshot,
\* Image.open, context.close.  new_context can succeed only on an open
\* browser.  new_page raises before the timeout is set; goto (a timeout
\* included), screenshot and Image.open raise to the same handler from the
\* same state, the context open and image still None; context.close() is the
\* last statement, so when it raises image is already assigned.
playwright_render(w, session, by, dimensions, timeout_ms) ==
    LET asked == Given(Ev(w, "new_context"),
                       [tier |-> "playwright", width |-> dimensions[1],
                        height |-> dimensions[2], device_scale_factor |-> 1,
                        timeout |-> 0])
        opened == [asked EXCEPT !.contexts = @ + 1]
        timed == IF timeout_ms # 0 THEN SetDefaultTimeout(opened, timeout_ms)
                 ELSE opened
        image == Img(by, dimensions)
    IN  { [Ret(asked) EXCEPT !.exc = TRUE] }
        \cup
        IF session \in w.browsers
        THEN { [Ret(opened) EXCEPT !.exc = TRUE],
               [Ret(timed) EXCEPT !.exc = TRUE],
               [Ret(timed) EXCEPT !.image = image, !.exc = TRUE],
               [Ret([timed EXCEPT !.contexts = @ - 1]) EXCEPT !.image = image] }
        ELSE {}

\* _take_screenshot_playwright (lines 189-224): every exception is caught and
\* the local image returned.
take_screenshot_playwright(w, target, dimensions, timeout_ms) ==
    UNION { IF g.session = 0
            THEN { Ret(Att(g.w, "playwright", NoImage)) }
            ELSE { [Ret(Att(r.w, "playwright", r.image)) EXCEPT !.image = r.image]
                   : r \in playwright_render(g.w, g.session, "playwright",
                                             dimensions, timeout_ms) }
            : g \in get_playwright_browser(Ev(w, "playwright")) }

\* tempfile.NamedTemporaryFile(suffix=".html", delete=False) and the write in
\* its with block (lines 153-157 and 238-240).  The creation raises and no file
\* exists; or the write (the encoding to UTF-8) raises inside the with block,
\* the file exists and html_file_path was not assigned; or the file is written
\* and path holds its name.
stage_html(w, html_str) ==
    LET f == Fresh(w)
        made == Create(Ev(w, "mktemp_html"), f)
    IN  { [Ret(Ev(w, "mktemp_html")) EXCEPT !.exc = TRUE],
          [Ret(made) EXCEPT !.exc = TRUE],
          [Ret(Written(made, f)) EXCEPT !.path = f] }

\* A faulty variant of _take_screenshot_html_playwright: the finally block is
\* missing, and the file written for the page is never removed.
take_screenshot_html_playwright_keeping(w, html_str, dimensions, timeout_ms) ==
    UNION { IF g.session = 0
            THEN { Ret(Att(g.w, "playwright", NoImage)) }
            ELSE UNION {
                   IF h.exc
                   THEN { Ret(Att(h.w, "playwright", NoImage)) }
                   ELSE { [Ret(Att(r.w, "playwright", r.image))
                             EXCEPT !.image = r.image]
                          : r \in playwright_render(h.w, g.session, "playwright_html",
                                                    dimensions, timeout_ms) }
                   : h \in stage_html(g.w, html_str) }
            : g \in get_playwright_browser(Ev(w, "playwright")) }

\* _take_screenshot_html_playwright (lines 138-187): the finally block removes
\* the file whenever html_file_path was assigned and the file exists.
take_screenshot_html_playwright(w, html_str, dimensions, timeout_ms) ==
    UNION { IF g.session = 0
            THEN { Ret(Att(g.w, "playwright", NoImage)) }
            ELSE UNION {
                   IF h.exc
                   THEN { Ret(Att(h.w, "playwright", NoImage)) }
                   ELSE { [Ret(Att(Remove(r.w, h.path), "playwright", r.image))
                             EXCEPT !.image = r.image]
                          : r \in playwright_render(h.w, g.session, "playwright_html",
                                                    dimensions, timeout_ms) }
                   : h \in stage_html(g.w, html_str) }
            : g \in get_playwright_browser(Ev(w, "playwright")) }

---------------------------------------------------------------------------
\* The browser binary locator.

path_candidates == <<"chromium-headless-shell", "chromium", "chrome", "google-chrome">>

app_paths == <<"/Applications/Google Chrome.app/Contents/MacOS/Google Chrome",
               "/Applications/Chromium.app/Contents/MacOS/Chromium">>

\* The hosts the calls run on: what shutil.which resolves each name to ("None"
\* when it is not on PATH), whether the host is Darwin, and the bundle paths
\* that are executable files.
NoBinary ==
    [which |-> [c \in {path_candidates[i] : i \in 1..4} |-> "None"],
     darwin |-> FALSE, apps |-> {}]

BinEnvs ==
    { NoBinary,
      [NoBinary EXCEPT !.which["chromium"] = "/usr/bin/chromium",
                       !.which["google-chrome"] = "/usr/bin/google-chrome"],
      [NoBinary EXCEPT !.darwin = TRUE, !.apps = {app_paths[2]}] }

RECURSIVE FirstOnPath(_, _)
FirstOnPath(env, i) ==
    IF i > Len(path_candidates) THEN "None"
    ELSE IF env.which[path_candidates[i]] # "None"
         THEN env.which[path_candidates[i]]
         ELSE FirstOnPath(env, i + 1)

RECURSIVE FirstApp(_, _)
FirstApp(env, i) ==
    IF i > Len(app_paths) THEN "None"
    ELSE IF app_paths[i] \in env.apps THEN app_paths[i]
         ELSE FirstApp(env, i + 1)

\* A faulty variant of _find_chromium_binary: on Darwin the application bundles
\* are examined before PATH.
find_chromium_binary_bundles_first(env) ==
    IF env.darwin /\ FirstApp(env, 1) # "None" THEN FirstApp(env, 1)
    ELSE FirstOnPath(env, 1)

\* _find_chromium_binary (lines 252-273).
find_chromium_binary(env) ==
    IF FirstOnPath(env, 1) # "None" THEN FirstOnPath(env, 1)
    ELSE IF env.darwin THEN FirstApp(env, 1)
         ELSE "None"

\* What shutil.which resolves a candidate name to when the name is on PATH.
Resolved ==
    [c \in {path_candidates[i] : i \in 1..4} |->
        CASE c = "chromium-headless-shell" -> "/usr/bin/chromium-headless-shell"
          [] c = "chromium" -> "/usr/bin/chromium"
          [] c = "chrome" -> "/usr/bin/chrome"
          [] OTHER -> "/usr/bin/google-chrome"]

\* Every host: each candidate name on PATH or not, Darwin or not, each bundle
\* path an executable file or not.
Hosts ==
    { [which |-> wh, darwin |-> d, apps |-> a] :
        wh \in { f \in [DOMAIN Resolved -> {"None"} \cup {Resolved[c] : c \in DOMAIN Resolved}] :
                    \A c \in DOMAIN Resolved : f[c] \in {"None", Resolved[c]} },
        d \in BOOLEAN,
        a \in SUBSET {app_paths[i] : i \in 1..2} }

NotCalled == [on |-> NoBinary, path |-> "not called"]

---------------------------------------------------------------------------
\* The subprocess backend and the two public functions.

\* What the command line of lines 297-323 tells the browser about the request:
\* --window-size={dimensions[0]},{dimensions[1]} and, when timeout_ms is
\* truthy, --timeout={timeout_ms}.
command(dimensions, timeout_ms) ==
    [tier |-> "chromium",
     window_size |-> <<Digits(dimensions[1]), Digits(dimensions[2])>>,
     flag_timeout |-> IF timeout_ms # 0 THEN Digits(timeout_ms) ELSE <<>>]

\* A faulty variant of the child process step: the test of line 327 is missing,
\* and the output file is loaded whatever the exit code.
run_chromium_unchecked(w, browser, target, dimensions, timeout_ms) ==
    LET f == Fresh(w)
        asked == Ev(w, "mktemp_png")
        ran == Ev(Given(Create(asked, f), command(dimensions, timeout_ms)), "run")
        image == Img("chromium", dimensions)
        none(x) == Ret(Att(x, "chromium", NoImage))
        loaded(x) == [Ret(Att(os_remove(Ev(x, "decoded"), f).w, "chromium", image))
                        EXCEPT !.image = image]
    IN  { [none(asked) EXCEPT !.exc = TRUE],
          [none(ran) EXCEPT !.exc = TRUE],
          [Ret(ran) EXCEPT !.hang = TRUE],
          loaded(Ev(ran, "returncode_nonzero")),
          [none(Ev(Remove(Ev(ran, "returncode_0"), f), "missing")) EXCEPT !.exc = TRUE],
          [none(Ev(Ev(ran, "returncode_0"), "exists")) EXCEPT !.exc = TRUE],
          loaded(Ev(Ev(ran, "returncode_0"), "exists")) }

\* The child process and what follows it (lines 293-336), the binary found.
\* NamedTemporaryFile(suffix=".png", delete=False) raises, or creates the file
\* f.  subprocess.run, given no timeout argument, raises (the binary cannot be
\* executed), never returns, or returns: with a non-zero code (os.path.exists
\* is then not evaluated), or with code 0 and the file removed, both returning
\* None at line 329 with nothing deleted; or with code 0 and the file present,
\* and then Image.open raises or the image is copied and the file removed.
run_chromium(w, browser, target, dimensions, timeout_ms) ==
    LET f == Fresh(w)
        asked == Ev(w, "mktemp_png")
        ran == Ev(Given(Create(asked, f), command(dimensions, timeout_ms)), "run")
        failed == Ev(ran, "returncode_nonzero")
        exited == Ev(ran, "returncode_0")
        present == Ev(exited, "exists")
        image == Img("chromium", dimensions)
        none(x) == Ret(Att(x, "chromium", NoImage))
        mktemp_raises == [none(asked) EXCEPT !.exc = TRUE]
        run_raises == [none(ran) EXCEPT !.exc = TRUE]
        run_blocks == [Ret(ran) EXCEPT !.hang = TRUE]
        nonzero == none(failed)
        missing == none(Ev(Remove(exited, f), "missing"))
        open_raises == [none(present) EXCEPT !.exc = TRUE]
        removed == os_remove(Ev(present, "decoded"), f)
        loaded == [Ret(Att(removed.w, "chromium", image))
                     EXCEPT !.image = image, !.exc = removed.exc]
    IN  { mktemp_raises, run_raises, run_blocks, nonzero, missing, open_raises,
          loaded }

\* A faulty variant of lines 286-336: `return None` of line 291 is missing, the
\* error is logged and the child process is run all the same.
chromium_screenshot_unchecked(w, target, dimensions, timeout_ms) ==
    UNION { run_chromium(IF browser = "None"
                         THEN Ev(Ev(w, "which"), "no_browser")
                         ELSE Ev(w, "which"),
                         browser, target, dimensions, timeout_ms)
            : browser \in {find_chromium_binary(env) : env \in BinEnvs} }

\* Lines 286-336 of take_screenshot: the locator, then, unless it returned
\* None (logged at line 290, None returned at line 291), the child process.
chromium_screenshot(w, target, dimensions, timeout_ms) ==
    UNION { IF browser = "None"
            THEN { Ret(Att(Ev(Ev(w, "which"), "no_browser"), "chromium", NoImage)) }
            ELSE run_chromium(Ev(w, "which"), browser, target, dimensions, timeout_ms)
            : browser \in {find_chromium_binary(env) : env \in BinEnvs} }

\* except Exception as e: logger.error(...) (lines 247-248 and 338-339): the
\* exception ends here and the function goes on to return its local image.
Caught(r) ==
    IF r.exc THEN [r EXCEPT !.exc = FALSE, !.w = Ev(@, "except")] ELSE r

\* A faulty variant of the try block of take_screenshot: `if image: return
\* image` is missing, and the subprocess backend runs after a successful
\* embedded render.
take_screenshot_try_falling_through(w, target, dimensions, timeout_ms) ==
    UNION { IF c.value
            THEN UNION { chromium_screenshot(e.w, target, dimensions, timeout_ms)
                         : e \in take_screenshot_playwright(c.w, target, dimensions,
                                                            timeout_ms) }
            ELSE chromium_screenshot(c.w, target, dimensions, timeout_ms)
            : c \in check_playwright_available(w) }

\* A faulty variant of the try block of take_screenshot: the result of
\* _check_playwright_available is not tested, and the embedded backend is tried
\* whatever it reports.
take_screenshot_try_unconditional(w, target, dimensions, timeout_ms) ==
    UNION { UNION { IF e.image # NoImage
                    THEN {e}
                    ELSE chromium_screenshot(e.w, target, dimensions, timeout_ms)
                    : e \in take_screenshot_playwright(c.w, target, dimensions,
                                                       timeout_ms) }
            : c \in check_playwright_available(w) }

\* The try block of take_screenshot (lines 279-336).
take_screenshot_try(w, target, dimensions, timeout_ms) ==
    UNION { IF c.value
            THEN UNION { IF e.image # NoImage
                         THEN {e}
                         ELSE chromium_screenshot(e.w, target, dimensions, timeout_ms)
                         : e \in take_screenshot_playwright(c.w, target, dimensions,
                                                            timeout_ms) }
            ELSE chromium_screenshot(c.w, target, dimensions, timeout_ms)
            : c \in check_playwright_available(w) }

\* A faulty variant of take_screenshot: the try block without its except
\* clause.
take_screenshot_uncaught(w, target, dimensions, timeout_ms) ==
    take_screenshot_try(w, target, dimensions, timeout_ms)

\* take_screenshot (lines 276-341): except Exception logs, and the local image
\* is returned.
take_screenshot(w, target, dimensions, timeout_ms) ==
    { Caught(r) : r \in take_screenshot_try(w, target, dimensions, timeout_ms) }

\* A faulty variant of lines 236-245 of take_screenshot_html: timeout_ms is
\* not passed on to take_screenshot.
html_fallback_without_timeout(w, html_str, dimensions, timeout_ms) ==
    UNION { IF h.exc
            THEN { [Ret(h.w) EXCEPT !.exc = TRUE] }
            ELSE { IF r.hang \/ r.exc
                   THEN r
                   ELSE [os_remove(r.w, h.path) EXCEPT !.image = r.image]
                   : r \in take_screenshot(h.w, h.path, dimensions, 0) }
            : h \in stage_html(w, html_str) }

\* Lines 236-245 of take_screenshot_html: the HTML is staged in a file,
\* take_screenshot is called on the file, and the file is removed.
html_fallback(w, html_str, dimensions, timeout_ms) ==
    UNION { IF h.exc
            THEN { [Ret(h.w) EXCEPT !.exc = TRUE] }
            ELSE { IF r.hang \/ r.exc
                   THEN r
                   ELSE [os_remove(r.w, h.path) EXCEPT !.image = r.image]
                   : r \in take_screenshot(h.w, h.path, dimensions, timeout_ms) }
            : h \in stage_html(w, html_str) }

\* The try block of take_screenshot_html (lines 228-245).
take_screenshot_html_try(w, html_str, dimensions, timeout_ms) ==
    UNION { IF c.value
            THEN UNION { IF e.image # NoImage
                         THEN {e}
                         ELSE html_fallback(e.w, html_str, dimensions, timeout_ms)
                         : e \in take_screenshot_html_playwright(c.w, html_str,
                                                   dimensions, timeout_ms) }
            ELSE html_fallback(c.w, html_str, dimensions, timeout_ms)
            : c \in check_playwright_available(w) }

\* take_screenshot_html (lines 226-250).
take_screenshot_html(w, html_str, dimensions, timeout_ms) ==
    { Caught(r)
      : r \in take_screenshot_html_try(w, html_str, dimensions, timeout_ms) }

---------------------------------------------------------------------------
\* The font tables of app_utils.py.

\* A table maps a family name to the list of its variants.  A variant of the
\* dict literal has the keys font-weight and file and no font-style key
\* (font_style "None"); v.get("font-style", "normal") reads it as "normal".
Variant(weight, style, file) ==
    [font_weight |-> weight, font_style |-> style, file |-> file]

StyleOf(v) == IF v.font_style = "None" THEN "normal" ELSE v.font_style

\* (v.get("font-weight", "normal"), v.get("font-style", "normal"))
KeyOf(v) == <<v.font_weight, StyleOf(v)>>

\* The dict literal of lines 13-36.
FontFamiliesLiteral ==
    [fam \in {"Dogica", "Jost", "Napoli", "DS-Digital"} |->
        CASE fam = "Dogica" ->
               <<Variant("normal", "None", "dogicapixel.ttf"),
                 Variant("bold", "None", "dogicapixelbold.ttf")>>
          [] fam = "Jost" ->
               <<Variant("normal", "None", "Jost.ttf"),
                 Variant("bold", "None", "Jost-SemiBold.ttf")>>
          [] fam = "Napoli" ->
               <<Variant("normal", "None", "Napoli.ttf")>>
          [] OTHER ->
               <<Variant("normal", "None", "DS-DIGI/DS-DIGI.TTF")>>]

EmptyTable == [fam \in {} |-> <<>>]

\* _DISCOVERED_FONTS = None, and _DISCOVERED_FONTS = t.
Uncached == [is_none |-> TRUE, families |-> EmptyTable]

Cached(t) == [is_none |-> FALSE, families |-> t]

\* The font files that can be in the fonts directory, each with its path
\* relative to the directory and the family, weight and style that
\* _load_metadata_override or _extract_font_metadata gives for it: an italic
\* and a bold file of the hardcoded family Jost, and two regular files of a
\* family that is not hardcoded.
FontFiles ==
    { [file |-> "Jost-Italic.ttf", family |-> "Jost", weight |-> "normal",
       style |-> "italic"],
      [file |-> "extra/Jost-Bold.ttf", family |-> "Jost", weight |-> "bold",
       style |-> "normal"],
      [file |-> "Inter.ttf", family |-> "Inter", weight |-> "normal",
       style |-> "normal"],
      [file |-> "Inter-Regular.otf", family |-> "Inter", weight |-> "normal",
       style |-> "normal"] }

NoFontsDir == [exists |-> FALSE, files |-> {}]

FontsDirs == {NoFontsDir} \cup {[exists |-> TRUE, files |-> fs] : fs \in SUBSET FontFiles}

\* The (weight, style) pairs in the order list.sort puts them in (line 284):
\* tuples of strings compare item by item, "bold" < "normal", "italic" < "normal".
SortedKeys ==
    <<<<"bold", "italic">>, <<"bold", "normal">>,
      <<"normal", "italic">>, <<"normal", "normal">>>>

\* The files of dir with family fam and the (weight, style) pair k.
Candidates(dir, fam, k) ==
    {x \in dir.files : x.family = fam /\ <<x.weight, x.style>> = k}

\* The (family, pair) combinations dir has a file for.
Slots(dir) ==
    {s \in {x.family : x \in dir.files} \X (1..Len(SortedKeys)) :
        Candidates(dir, s[1], SortedKeys[s[2]]) # {}}

\* rglob yields the files in an order the filesystem decides, and of the
\* files with the same family and pair the one met first is kept (lines
\* 269-272): any one of them.
Picks(dir) ==
    {pick \in [Slots(dir) -> dir.files] :
        \A s \in Slots(dir) : pick[s] \in Candidates(dir, s[1], SortedKeys[s[2]])}

\* The variants kept for fam, sorted (lines 283-284).
RECURSIVE SortedVariants(_, _, _, _)
SortedVariants(dir, pick, fam, i) ==
    IF i > Len(SortedKeys) THEN <<>>
    ELSE (IF <<fam, i>> \in Slots(dir)
          THEN <<Variant(pick[<<fam, i>>].weight, pick[<<fam, i>>].style,
                         pick[<<fam, i>>].file)>>
          ELSE <<>>)
         \o SortedVariants(dir, pick, fam, i + 1)

\* The scan of _discover_fonts (lines 218-284): the tables it can build from
\* the directory dir.  A directory that does not exist gives the empty table.
Scan(dir) ==
    IF ~dir.exists THEN {EmptyTable}
    ELSE { [fam \in {x.family : x \in dir.files} |->
               SortedVariants(dir, pick, fam, 1)] : pick \in Picks(dir) }

\* The state the font functions run in: the dict FONT_FAMILIES, the cache, the
\* directory, and whether the call has scanned the directory.
FontState ==
    [table |-> FONT_FAMILIES, cache |-> DISCOVERED_FONTS, dir |-> fonts_dir,
     scanned |-> FALSE]

\* A result of a font function: the state after the call and what it returns.
FontRet(s, value) == [s |-> s, value |-> value]

\* A faulty variant of _discover_fonts: the test of the cache is missing, and
\* every call scans the directory.
discover_fonts_rescanning(s) ==
    { FontRet([s EXCEPT !.cache = Cached(t), !.scanned = TRUE], t)
      : t \in Scan(s.dir) }

\* _discover_fonts (lines 201-289): the cached table when there is one, else
\* a scan whose result is cached and returned.
discover_fonts(s) ==
    IF ~s.cache.is_none
    THEN { FontRet(s, s.cache.families) }
    ELSE { FontRet([s EXCEPT !.cache = Cached(t), !.scanned = TRUE], t)
           : t \in Scan(s.dir) }

\* A faulty variant of lines 316-327: the test of line 324 is missing, and every
\* discovered variant of the family is appended.
Extended_unchecked(variants, discovered) == variants \o discovered

\* Lines 316-327, for a family that is in merged: merged[family] is
\* the list object FONT_FAMILIES[family] (FONT_FAMILIES.copy() copies the dict
\* and not its lists), and the variants whose (weight, style) pair the list
\* does not have yet are appended to it.
Extended(variants, discovered) ==
    LET existing_weights_styles == {KeyOf(variants[i]) : i \in DOMAIN variants}
        IsNew(v) == KeyOf(v) \notin existing_weights_styles
    IN  variants \o SelectSeq(discovered, IsNew)

\* _get_all_font_families (lines 291-332).  The lists of the hardcoded
\* families are shared between merged and FONT_FAMILIES; a family that is not
\* hardcoded gets a copy of its discovered list.
get_all_font_families(s) ==
    { LET discovered == d.value
          table == [fam \in DOMAIN d.s.table |->
                      IF fam \in DOMAIN discovered
                      THEN Extended(d.s.table[fam], discovered[fam])
                      ELSE d.s.table[fam]]
          merged == [fam \in DOMAIN table \cup DOMAIN discovered |->
                      IF fam \in DOMAIN table THEN table[fam]
                      ELSE discovered[fam]]
      IN  FontRet([d.s EXCEPT !.table = table], merged)
      : d \in discover_fonts(s) }

\* The order in which the families of a merged table are iterated: the keys of
\* the dict literal, then the families added.
FamilyOrder == <<"Dogica", "Jost", "Napoli", "DS-Digital", "Inter">>

\* The entries get_fonts builds for one family (lines 409-415); url stands
\* for the path of the file below the fonts directory.
FontEntries(font_family, variants) ==
    [i \in DOMAIN variants |->
        [font_family |-> font_family, url |-> variants[i].file,
         font_weight |-> variants[i].font_weight,
         font_style |-> StyleOf(variants[i])]]

RECURSIVE FontsList(_, _)
FontsList(font_families, i) ==
    IF i > Len(FamilyOrder) THEN <<>>
    ELSE (IF FamilyOrder[i] \in DOMAIN font_families
          THEN FontEntries(FamilyOrder[i], font_families[FamilyOrder[i]])
          ELSE <<>>)
         \o FontsList(font_families, i + 1)

\* get_fonts (lines 394-421).
get_fonts(s) ==
    { FontRet(m.s, FontsList(m.value, 1)) : m \in get_all_font_families(s) }

NoFont == [file |-> "None", loaded |-> FALSE]

\* get_font (lines 356-392): the first variant with the requested weight, else
\* the first variant; ImageFont.truetype loads its file or raises, and then
\* None is returned.  An unknown family gives None.
get_font(s, font_name, font_weight) ==
    UNION { IF font_name \in DOMAIN m.value
            THEN LET font_variants == m.value[font_name]
                     matching == {i \in DOMAIN font_variants :
                                    font_variants[i].font_weight = font_weight}
                     font_entry ==
                        IF matching # {}
                        THEN font_variants[CHOOSE i \in matching :
                                              \A j \in matching : i <= j]
                        ELSE font_variants[1]
                 IN  { FontRet(m.s, [file |-> font_entry.file, loaded |-> ok])
                       : ok \in BOOLEAN }
            ELSE { FontRet(m.s, NoFont) }
            : m \in get_all_font_families(s) }

\* reload_fonts (lines 442-451): the cache is set to None and _discover_fonts
\* called.
reload_fonts(s) ==
    { FontRet(d.s, EmptyTable) : d \in discover_fonts([s EXCEPT !.cache = Uncached]) }

\* No font call is in progress or waiting to be taken up.
NoFontCall ==
    [op |-> "none", before |-> Uncached, scanned |-> FALSE,
     families |-> EmptyTable, fonts |-> <<>>, font |-> NoFont]

\* No call of a NodeRed method is in progress or waiting to be taken up.
NoNrCall == [op |-> "none"]

---------------------------------------------------------------------------
\* The calls of a process, one after the other.

NoDimensions == <<0, 0>>

NoCall ==
    [op |-> "none", dimensions |-> NoDimensions, timeout_ms |-> 0,
     image |-> NoImage, session |-> 0, value |-> FALSE, raised |-> FALSE,
     log |-> <<>>, attempts |-> <<>>, created |-> {}, written |-> {},
     given |-> <<>>, disk |-> {}, contexts |-> 0,
     before |-> [avail |-> "None", browser |-> 0, engines |-> {},
                 browsers |-> {}, starts |-> 0, probes |-> 0, acquired |-> 0]]

Init ==
    /\ playwright_available = "None"
    /\ playwright_browser = 0
    /\ engines = {}
    /\ browsers = {}
    /\ starts = 0
    /\ probes = 0
    /\ pc = "idle"
    /\ last = NoCall
    /\ previous = "none"
    /\ acquired = 0
    /\ host = NoBinary
    /\ found = NotCalled
    /\ FONT_FAMILIES = FontFamiliesLiteral
    /\ DISCOVERED_FONTS = Uncached
    /\ fonts_dir = NoFontsDir
    /\ font_call = NoFontCall
    /\ nr_call = NoNrCall

\* The counters stay within the bounds of the model.
Within(w) ==
    /\ w.starts <= MaxStarts
    /\ w.probes <= MaxProbes

\* The call op, made with (dimensions, timeout_ms), ends as r.
Commit(op, r, dimensions, timeout_ms) ==
    /\ Within(r.w)
    /\ playwright_available' = r.w.avail
    /\ playwright_browser' = r.w.browser
    /\ engines' = r.w.engines
    /\ browsers' = r.w.browsers
    /\ starts' = r.w.starts
    /\ probes' = r.w.probes
    /\ pc' = IF r.hang THEN "blocked" ELSE "returned"
    /\ last' = [op |-> op, dimensions |-> dimensions, timeout_ms |-> timeout_ms,
                image |-> r.image, session |-> r.session, value |-> r.value,
                raised |-> r.exc, log |-> r.w.log, attempts |-> r.w.attempts,
                created |-> r.w.created, written |-> r.w.written,
                given |-> r.w.given,
                disk |-> r.w.disk,
                contexts |-> r.w.contexts,
                before |-> [avail |-> playwright_available,
                            browser |-> playwright_browser,
                            engines |-> engines, browsers |-> browsers,
                            starts |-> starts, probes |-> probes,
                            acquired |-> acquired]]
    /\ acquired' = CASE op = "_get_playwright_browser" -> r.session
                     [] op = "_cleanup_playwright" -> 0
                     [] OTHER -> acquired
    /\ UNCHANGED previous
    /\ UNCHANGED locator_vars
    /\ UNCHANGED <<font_vars, nodered_vars>>

\* The caller takes the result and goes on.
Resume ==
    /\ pc = "returned"
    /\ pc' = "idle"
    /\ previous' = last.op
    /\ last' = NoCall
    /\ UNCHANGED <<playwright_available, playwright_browser, engines, browsers,
                   starts, probes, acquired>>
    /\ UNCHANGED locator_vars
    /\ UNCHANGED <<font_vars, nodered_vars>>

CheckPlaywrightAvailable ==
    /\ pc = "idle"
    /\ \E r \in check_playwright_available(World) :
          Commit("_check_playwright_available", r, NoDimensions, 0)

GetPlaywrightBrowser ==
    /\ pc = "idle"
    /\ \E r \in get_playwright_browser(World) :
          Commit("_get_playwright_browser", r, NoDimensions, 0)

CleanupPlaywright ==
    /\ pc = "idle"
    /\ \E r \in cleanup_playwright(World) :
          Commit("_cleanup_playwright", r, NoDimensions, 0)

TakeScreenshotPlaywright ==
    /\ pc = "idle"
    /\ \E target \in Targets, dimensions \in Dimensions, timeout_ms \in Timeouts :
          \E r \in take_screenshot_playwright(World, target, dimensions, timeout_ms) :
              Commit("_take_screenshot_playwright", r, dimensions, timeout_ms)

TakeScreenshotHtmlPlaywright ==
    /\ pc = "idle"
    /\ \E html_str \in Htmls, dimensions \in Dimensions, timeout_ms \in Timeouts :
          \E r \in take_screenshot_html_playwright(World, html_str, dimensions,
                                                  timeout_ms) :
              Commit("_take_screenshot_html_playwright", r, dimensions, timeout_ms)

TakeScreenshot ==
    /\ pc = "idle"
    /\ \E target \in Targets, dimensions \in Dimensions, timeout_ms \in Timeouts :
          \E r \in take_screenshot(World, target, dimensions, timeout_ms) :
              Commit("take_screenshot", r, dimensions, timeout_ms)

TakeScreenshotHtml ==
    /\ pc = "idle"
    /\ \E html_str \in Htmls, dimensions \in Dimensions, timeout_ms \in Timeouts :
          \E r \in take_screenshot_html(World, html_str, dimensions, timeout_ms) :
              Commit("take_screenshot_html", r, dimensions, timeout_ms)

Next ==
    \/ CheckPlaywrightAvailable
    \/ GetPlaywrightBrowser
    \/ CleanupPlaywright
    \/ TakeScreenshotPlaywright
    \/ TakeScreenshotHtmlPlaywright
    \/ TakeScreenshot
    \/ TakeScreenshotHtml
    \/ Resume

Spec == Init /\ [][Next]_vars

---------------------------------------------------------------------------
\* The locator called on its own, on any host.
LocatorInit ==
    /\ playwright_available = "None"
    /\ playwright_browser = 0
    /\ engines = {}
    /\ browsers = {}
    /\ starts = 0
    /\ probes = 0
    /\ pc = "idle"
    /\ last = NoCall
    /\ previous = "none"
    /\ acquired = 0
    /\ host \in Hosts
    /\ found = NotCalled
    /\ FONT_FAMILIES = FontFamiliesLiteral
    /\ DISCOVERED_FONTS = Uncached
    /\ fonts_dir = NoFontsDir
    /\ font_call = NoFontCall
    /\ nr_call = NoNrCall

FindChromiumBinary ==
    /\ found' = [on |-> host, path |-> find_chromium_binary(host)]
    /\ UNCHANGED host
    /\ UNCHANGED render_vars
    /\ UNCHANGED <<font_vars, nodered_vars>>

\* Between two calls a binary is installed or removed: one name appears on or
\* disappears from PATH, or one bundle path becomes or stops being an
\* executable file.
HostChanges ==
    /\ \/ \E c \in DOMAIN Resolved :
            host' = [host EXCEPT !.which[c] = IF @ = "None" THEN Resolved[c] ELSE "None"]
       \/ \E a \in {app_paths[i] : i \in 1..2} :
            host' = [host EXCEPT !.apps = IF a \in @ THEN @ \ {a} ELSE @ \cup {a}]
    /\ UNCHANGED found
    /\ UNCHANGED render_vars
    /\ UNCHANGED <<font_vars, nodered_vars>>

LocatorNext ==
    \/ FindChromiumBinary
    \/ HostChanges

LocatorSpec == LocatorInit /\ [][LocatorNext]_vars

---------------------------------------------------------------------------
\* The font functions called one after the other, the fonts directory
\* changing between the calls.

FontInit ==
    /\ playwright_available = "None"
    /\ playwright_browser = 0
    /\ engines = {}
    /\ browsers = {}
    /\ starts = 0
    /\ probes = 0
    /\ pc = "idle"
    /\ last = NoCall
    /\ previous = "none"
    /\ acquired = 0
    /\ host = NoBinary
    /\ found = NotCalled
    /\ FONT_FAMILIES = FontFamiliesLiteral
    /\ DISCOVERED_FONTS = Uncached
    /\ fonts_dir \in FontsDirs
    /\ font_call = NoFontCall
    /\ nr_call = NoNrCall

DiscoverFonts ==
    /\ font_call.op = "none"
    /\ \E r \in discover_fonts(FontState) :
          /\ FONT_FAMILIES' = r.s.table
          /\ DISCOVERED_FONTS' = r.s.cache
          /\ font_call' = [NoFontCall EXCEPT !.op = "_discover_fonts",
                                             !.before = DISCOVERED_FONTS,
                                             !.scanned = r.s.scanned,
                                             !.families = r.value]
          /\ UNCHANGED fonts_dir
          /\ UNCHANGED <<render_vars, locator_vars, nodered_vars>>

GetAllFontFamilies ==
    /\ font_call.op = "none"
    /\ \E r \in get_all_font_families(FontState) :
          /\ FONT_FAMILIES' = r.s.table
          /\ DISCOVERED_FONTS' = r.s.cache
          /\ font_call' = [NoFontCall EXCEPT !.op = "_get_all_font_families",
                                             !.before = DISCOVERED_FONTS,
                                             !.scanned = r.s.scanned,
                                             !.families = r.value]
          /\ UNCHANGED fonts_dir
          /\ UNCHANGED <<render_vars, locator_vars, nodered_vars>>

GetFont ==
    /\ font_call.op = "none"
    /\ \E font_name \in {"Jost", "Inter"}, font_weight \in {"normal", "bold"} :
          \E r \in get_font(FontState, font_name, font_weight) :
              /\ FONT_FAMILIES' = r.s.table
              /\ DISCOVERED_FONTS' = r.s.cache
              /\ font_call' = [NoFontCall EXCEPT !.op = "get_font",
                                                 !.before = DISCOVERED_FONTS,
                                                 !.scanned = r.s.scanned,
                                                 !.font = r.value]
              /\ UNCHANGED fonts_dir
              /\ UNCHANGED <<render_vars, locator_vars, nodered_vars>>

GetFonts ==
    /\ font_call.op = "none"
    /\ \E r \in get_fonts(FontState) :
          /\ FONT_FAMILIES' = r.s.table
          /\ DISCOVERED_FONTS' = r.s.cache
          /\ font_call' = [NoFontCall EXCEPT !.op = "get_fonts",
                                             !.before = DISCOVERED_FONTS,
                                             !.scanned = r.s.scanned,
                                             !.fonts = r.value]
          /\ UNCHANGED fonts_dir
          /\ UNCHANGED <<render_vars, locator_vars, nodered_vars>>

ReloadFonts ==
    /\ font_call.op = "none"
    /\ \E r \in reload_fonts(FontState) :
          /\ FONT_FAMILIES' = r.s.table
          /\ DISCOVERED_FONTS' = r.s.cache
          /\ font_call' = [NoFontCall EXCEPT !.op = "reload_fonts",
                                             !.before = DISCOVERED_FONTS,
                                             !.scanned = r.s.scanned]
          /\ UNCHANGED fonts_dir
          /\ UNCHANGED <<render_vars, locator_vars, nodered_vars>>

\* The caller takes the result and goes on.
FontReturn ==
    /\ font_call.op # "none"
    /\ font_call' = NoFontCall
    /\ UNCHANGED <<FONT_FAMILIES, DISCOVERED_FONTS, fonts_dir>>
    /\ UNCHANGED <<render_vars, locator_vars, nodered_vars>>

\* Between two calls a font file is added to or removed from the directory,
\* or the directory is removed or created.
FontsDirChanges ==
    /\ font_call.op = "none"
    /\ \/ /\ fonts_dir.exists
          /\ \E x \in FontFiles :
                fonts_dir' = [fonts_dir EXCEPT
                                !.files = IF x \in @ THEN @ \ {x} ELSE @ \cup {x}]
       \/ fonts_dir' = IF fonts_dir.exists THEN NoFontsDir
                       ELSE [exists |-> TRUE, files |-> {}]
    /\ UNCHANGED <<FONT_FAMILIES, DISCOVERED_FONTS, font_call>>
    /\ UNCHANGED <<render_vars, locator_vars, nodered_vars>>

FontNext ==
    \/ DiscoverFonts
    \/ GetAllFontFamilies
    \/ GetFont
    \/ GetFonts
    \/ ReloadFonts
    \/ FontReturn
    \/ FontsDirChanges

FontSpec == FontInit /\ [][FontNext]_vars

---------------------------------------------------------------------------
\* The Node-RED plugin (src/plugins/node-red/node-red.py).
\*
\* A Python str is the sequence of its characters, each a one-character
\* string, so that stripping, splitting, searching and replacing are computed
\* character by character as the str methods compute them.

Whitespace == {" ", "\t", "\n"}

DigitChars == <<"0", "1", "2", "3", "4", "5", "6", "7", "8", "9">>

IsDigit(c) == \E i \in DOMAIN DigitChars : DigitChars[i] = c

DigitValue(c) == (CHOOSE i \in DOMAIN DigitChars : DigitChars[i] = c) - 1

\* str.lstrip(), str.rstrip() and str.strip() without argument.
RECURSIVE lstrip(_)
lstrip(s) ==
    IF s # <<>> /\ Head(s) \in Whitespace THEN lstrip(Tail(s)) ELSE s

RECURSIVE rstrip(_)
rstrip(s) ==
    IF s # <<>> /\ s[Len(s)] \in Whitespace
    THEN rstrip(SubSeq(s, 1, Len(s) - 1))
    ELSE s

strip(s) == rstrip(lstrip(s))

\* str.rstrip(chars): the trailing characters of the set chars removed.
RECURSIVE rstrip_chars(_, _)
rstrip_chars(s, chars) ==
    IF s # <<>> /\ s[Len(s)] \in chars
    THEN rstrip_chars(SubSeq(s, 1, Len(s) - 1), chars)
    ELSE s

\* str.startswith(prefix) and the operator `sub in s`.
startswith(s, prefix) ==
    /\ Len(prefix) <= Len(s)
    /\ SubSeq(s, 1, Len(prefix)) = prefix

contains(s, sub) ==
    \E i \in 1..(Len(s) - Len(sub) + 1) : SubSeq(s, i, i + Len(sub) - 1) = sub

\* str.split(sep) for a separator of one character: the pieces between the
\* separators, an empty piece included.
RECURSIVE split(_, _)
split(s, sep) ==
    IF \E i \in DOMAIN s : s[i] = sep
    THEN LET i == CHOOSE k \in DOMAIN s :
                     s[k] = sep /\ \A j \in 1..(k - 1) : s[j] # sep
         IN  <<SubSeq(s, 1, i - 1)>> \o split(SubSeq(s, i + 1, Len(s)), sep)
    ELSE <<s>>

\* str.replace(old, new) for a non-empty old: the occurrences of old are found
\* from the left, none overlapping the one before, and each becomes new.
RECURSIVE replace(_, _, _)
replace(s, old, new) ==
    IF s = <<>> THEN <<>>
    ELSE IF startswith(s, old)
         THEN new \o replace(SubSeq(s, Len(old) + 1, Len(s)), old, new)
         ELSE <<Head(s)>> \o replace(Tail(s), old, new)

\* The value of a run of digits and underscores, the underscores skipped.
RECURSIVE Decimal(_)
Decimal(s) ==
    IF s = <<>> THEN 0
    ELSE IF s[Len(s)] = "_" THEN Decimal(SubSeq(s, 1, Len(s) - 1))
    ELSE 10 * Decimal(SubSeq(s, 1, Len(s) - 1)) + DigitValue(s[Len(s)])

\* int(s) for a str: whitespace around the literal is dropped; the literal is
\* an optional sign and digits, single underscores allowed between digits.
\* Anything else is a ValueError, here ok = FALSE.
ValueError == [ok |-> FALSE, n |-> 0]

int_of_str(s) ==
    LET t == strip(s)
        signed == t # <<>> /\ Head(t) \in {"+", "-"}
        body == IF signed THEN Tail(t) ELSE t
        wellformed ==
            /\ body # <<>>
            /\ IsDigit(body[1]) /\ IsDigit(body[Len(body)])
            /\ \A i \in DOMAIN body : IsDigit(body[i]) \/ body[i] = "_"
            /\ \A i \in 1..(Len(body) - 1) : ~(body[i] = "_" /\ body[i + 1] = "_")
    IN  IF ~wellformed THEN ValueError
        ELSE [ok |-> TRUE,
              n |-> IF signed /\ Head(t) = "-" THEN 0 - Decimal(body)
                    ELSE Decimal(body)]

\* str(n) for an int.
RECURSIVE str_of_nat(_)
str_of_nat(n) ==
    IF n < 10 THEN <<DigitChars[n + 1]>>
    ELSE Append(str_of_nat(n \div 10), DigitChars[(n % 10) + 1])

str_of_int(n) == IF n < 0 THEN <<"-">> \o str_of_nat(0 - n) ELSE str_of_nat(n)

\* Python values: None, str, int, bool, list, and dict as the sequence of its
\* <<key, value>> entries in insertion order, which is the order of the JSON
\* document for what response.json() returns.
PyNone == [t |-> "None"]

PyStr(s) == [t |-> "str", s |-> s]

PyInt(n) == [t |-> "int", n |-> n]

PyBool(b) == [t |-> "bool", b |-> b]

PyList(items) == [t |-> "list", items |-> items]

PyDict(entries) == [t |-> "dict", entries |-> entries]

\* dict.get(key): the value under key, None without one.
dict_get(d, key) ==
    IF \E i \in DOMAIN d.entries : d.entries[i][1] = key
    THEN d.entries[CHOOSE i \in DOMAIN d.entries : d.entries[i][1] = key][2]
    ELSE PyNone

\* A faulty variant of lines 256-263: the lower bound of line 258 is missing,
\* so that a negative index counts from the end of the list, as value[idx]
\* does.
list_item_from_the_end(value, key) ==
    LET idx == int_of_str(key)
    IN  IF ~idx.ok THEN PyNone
        ELSE IF 0 <= idx.n /\ idx.n < Len(value.items)
             THEN value.items[idx.n + 1]
        ELSE IF idx.n < 0 /\ 0 - idx.n <= Len(value.items)
             THEN value.items[Len(value.items) + idx.n + 1]
        ELSE PyNone

\* Lines 256-263: the element of a list under a key; the `return None` of lines
\* 261 and 263 is the None here, which line 267 returns.
list_item(value, key) ==
    LET idx == int_of_str(key)
    IN  IF idx.ok /\ 0 <= idx.n /\ idx.n < Len(value.items)
        THEN value.items[idx.n + 1]
        ELSE PyNone

\* The loop of lines 252-270 over the keys left, from the value reached.
RECURSIVE follow(_, _)
follow(value, keys) ==
    IF keys = <<>> THEN value
    ELSE LET key == Head(keys)
             next == IF value.t = "dict" THEN dict_get(value, key)
                     ELSE IF value.t = "list" THEN list_item(value, key)
                     ELSE PyNone
         IN  IF next = PyNone THEN PyNone ELSE follow(next, Tail(keys))

\* _extract_json_value(data, key_path), lines 243-273, for a str key_path.
\* Nothing in the try block raises on these arguments, so the handler of line
\* 271 is never entered.
extract_json_value(data, key_path) ==
    IF key_path = <<>> THEN PyNone
    ELSE follow(data, split(key_path, "."))

\* The JSON documents the endpoint answers with.
\*   Doc1: {"a": {"b": 21, "cd": ["x"], "n": null}, "l": [{"b": 1}, null]}
\*   Doc2: [[0, " x"], {"0": true}]
\*   Doc3: 7
\*   Doc4: {"": {"x": false}}
Doc1 ==
    PyDict(<< <<(<<"a">>),
                PyDict(<< <<(<<"b">>), PyInt(21)>>,
                          <<(<<"c", "d">>), PyList(<<PyStr(<<"x">>)>>)>>,
                          <<(<<"n">>), PyNone>> >>)>>,
              <<(<<"l">>),
                PyList(<<PyDict(<< <<(<<"b">>), PyInt(1)>> >>), PyNone>>)>> >>)

Doc2 ==
    PyList(<<PyList(<<PyInt(0), PyStr(<<" ", "x">>)>>),
             PyDict(<< <<(<<"0">>), PyBool(TRUE)>> >>)>>)

Doc3 == PyInt(7)

Doc4 == PyDict(<< <<(<<>>), PyDict(<< <<(<<"x">>), PyBool(FALSE)>> >>)>> >>)

Docs == {Doc1, Doc2, Doc3, Doc4}

\* The pieces key paths are made of, and the key paths of up to MaxPath pieces.
MaxPath == 3

Segments ==
    {<<"a">>, <<"b">>, <<"c", "d">>, <<"n">>, <<"l">>, <<"x">>, <<>>,
     <<"0">>, <<"1">>, <<"0", "1">>, <<"-", "1">>}

Paths == UNION {[1..n -> Segments] : n \in 0..MaxPath}

\* '.'.join(path)
RECURSIVE join(_)
join(path) ==
    IF path = <<>> THEN <<>>
    ELSE IF Len(path) = 1 THEN path[1]
    ELSE path[1] \o <<".">> \o join(Tail(path))

ExtractJsonValue ==
    /\ nr_call.op = "none"
    /\ \E data \in Docs, path \in Paths :
          nr_call' = [op |-> "_extract_json_value",
                      data |-> data,
                      path |-> path,
                      key_path |-> join(path),
                      value |-> extract_json_value(data, join(path))]
    /\ UNCHANGED <<render_vars, locator_vars, font_vars>>

\* The str literals of _process_output_line and _parse_divisions.
title == <<"t", "i", "t", "l", "e">>

divider == <<"d", "i", "v", "i", "d", "e", "r">>

dataoutput == <<"d", "a", "t", "a", "o", "u", "t", "p", "u", "t">>

placeholder == <<"{", "v", "a", "l", "u", "e", "}">>

not_found == <<"?", "?">>

Jost == <<"J", "o", "s", "t">>

normal == <<"n", "o", "r", "m", "a", "l">>

black == <<"#", "0", "0", "0", "0", "0", "0">>

\* ', '.join(texts)
RECURSIVE comma_join(_)
comma_join(texts) ==
    IF texts = <<>> THEN <<>>
    ELSE IF Len(texts) = 1 THEN texts[1]
    ELSE texts[1] \o <<",", " ">> \o comma_join(Tail(texts))

\* str(v) and repr(v) of a Python value.  The repr of a str is the str between
\* single quotes; the strs of the documents hold no quote, no backslash and no
\* control character, which repr would write otherwise.
RECURSIVE py_repr(_)
RECURSIVE py_str(_)
py_repr(v) ==
    IF v.t = "str" THEN <<"'">> \o v.s \o <<"'">> ELSE py_str(v)

py_str(v) ==
    CASE v.t = "None" -> <<"N", "o", "n", "e">>
      [] v.t = "str" -> v.s
      [] v.t = "int" -> str_of_int(v.n)
      [] v.t = "bool" -> IF v.b THEN <<"T", "r", "u", "e">>
                         ELSE <<"F", "a", "l", "s", "e">>
      [] v.t = "list" ->
           <<"[">> \o comma_join([i \in DOMAIN v.items |-> py_repr(v.items[i])])
                   \o <<"]">>
      [] v.t = "dict" ->
           <<"{">> \o comma_join([i \in DOMAIN v.entries |->
                                    py_repr(PyStr(v.entries[i][1])) \o <<":", " ">>
                                        \o py_repr(v.entries[i][2])])
                   \o <<"}">>

\* line.get(key, default) for a line, a dict with str keys and str values,
\* here a record with the keys as fields.
line_get(line, key, default) == IF key \in DOMAIN line THEN line[key] ELSE default

\* A faulty variant of _process_output_line: the .strip() of lines 210 and 211
\* is missing.
process_output_line_unstripped(line, json_data) ==
    LET line_type == line_get(line, "type", dataoutput)
        value == line_get(line, "value", <<>>)
        format_str == line_get(line, "format", placeholder)
        data_value == extract_json_value(json_data, value)
    IN  [type |-> line_type,
         font |-> line_get(line, "font", Jost),
         size |-> line_get(line, "size", normal),
         color |-> line_get(line, "color", black),
         display_text |->
            IF line_type = title THEN value
            ELSE IF line_type = divider THEN <<>>
            ELSE IF line_type = dataoutput
            THEN IF data_value = PyNone
                 THEN replace(format_str, placeholder, not_found)
                 ELSE replace(format_str, placeholder, py_str(data_value))
            ELSE <<>>]

\* _process_output_line(line, json_data), lines 207-241, for a line whose
\* values are strs.  str.replace raises on no str, so the handler of line 237
\* is never entered.
process_output_line(line, json_data) ==
    LET line_type == line_get(line, "type", dataoutput)
        value == strip(line_get(line, "value", <<>>))
        format_str == strip(line_get(line, "format", placeholder))
        data_value == extract_json_value(json_data, value)
    IN  [type |-> line_type,
         font |-> line_get(line, "font", Jost),
         size |-> line_get(line, "size", normal),
         color |-> line_get(line, "color", black),
         display_text |->
            IF line_type = title THEN value
            ELSE IF line_type = divider THEN <<>>
            ELSE IF line_type = dataoutput
            THEN IF data_value = PyNone
                 THEN replace(format_str, placeholder, not_found)
                 ELSE replace(format_str, placeholder, py_str(data_value))
            ELSE <<>>]

\* The lines _process_output_line is given.  The value of a line is a text
\* with or without a blank before and after it; the texts are key paths into
\* the documents, found or not, that serve as titles as well:
\*   a.b   a.n   a.cd   l.0   0.1   1.0   x y   and the empty text
Blanks == {<<>>, <<" ">>}

Cores ==
    {<<>>,
     <<"a", ".", "b">>,
     <<"a", ".", "n">>,
     <<"a", ".", "c", "d">>,
     <<"l", ".", "0">>,
     <<"0", ".", "1">>,
     <<"1", ".", "0">>,
     <<"x", " ", "y">>}

\* The format of a line is a template, pieces of text around placeholders,
\* with or without a blank before and after it:
\*   {value}   T: {value}   {value}/{value}   {{value}}   {val{value}   n/a
\*   and the empty format
Hole == [kind |-> "hole", text |-> <<>>]

Text(s) == [kind |-> "text", text |-> s]

Templates ==
    {<<Hole>>,
     <<Text(<<"T", ":", " ">>), Hole>>,
     <<Hole, Text(<<"/">>), Hole>>,
     <<Text(<<"{">>), Hole, Text(<<"}">>)>>,
     <<Text(<<"{", "v", "a", "l">>), Hole>>,
     <<Text(<<"n", "/", "a">>)>>,
     <<>>}

RECURSIVE format_of(_)
format_of(template) ==
    IF template = <<>> THEN <<>>
    ELSE (IF Head(template).kind = "hole" THEN placeholder ELSE Head(template).text)
         \o format_of(Tail(template))

LineTypes == {title, divider, dataoutput, <<"x">>}

large == <<"l", "a", "r", "g", "e">>

red == <<"#", "f", "0", "0">>

\* The looks of a line: font, size and color given, or left to the defaults.
Looks == {[font |-> <<"D", "o", "g", "i", "c", "a">>, size |-> large, color |-> red],
          [size |-> large]}

ProcessOutputLine ==
    /\ nr_call.op = "none"
    /\ \E line_type \in LineTypes, core \in Cores, template \in Templates,
          before \in Blanks, after \in Blanks, look \in Looks,
          json_data \in {Doc1, Doc2} :
          LET line == [type |-> line_type,
                       value |-> before \o core \o after,
                       format |-> before \o format_of(template) \o after] @@ look
          IN  nr_call' = [op |-> "_process_output_line",
                          line |-> line,
                          json_data |-> json_data,
                          core |-> core,
                          template |-> template,
                          blanks |-> <<before, after>>,
                          processed_line |-> process_output_line(line, json_data)]
    /\ UNCHANGED <<render_vars, locator_vars, font_vars>>

\* ord(c), the code point sorted() compares strs by, for the printable ASCII
\* characters but the double quote (34), the backslash (92) and the backquote
\* (96), which no key of a form holds.
AsciiFrom32 == <<" ", "!">>

AsciiFrom35 ==
    <<"#", "$", "%", "&", "'", "(", ")", "*", "+", ",", "-", ".", "/", "0",
      "1", "2", "3", "4", "5", "6", "7", "8", "9", ":", ";", "<", "=", ">",
      "?", "@", "A", "B", "C", "D", "E", "F", "G", "H", "I", "J", "K", "L",
      "M", "N", "O", "P", "Q", "R", "S", "T", "U", "V", "W", "X", "Y", "Z",
      "[">>

AsciiFrom93 == <<"]", "^", "_">>

AsciiFrom97 ==
    <<"a", "b", "c", "d", "e", "f", "g", "h", "i", "j", "k", "l", "m", "n",
      "o", "p", "q", "r", "s", "t", "u", "v", "w", "x", "y", "z", "{", "|",
      "}", "~">>

ord(c) ==
    IF \E i \in DOMAIN AsciiFrom32 : AsciiFrom32[i] = c
    THEN 31 + (CHOOSE i \in DOMAIN AsciiFrom32 : AsciiFrom32[i] = c)
    ELSE IF \E i \in DOMAIN AsciiFrom35 : AsciiFrom35[i] = c
    THEN 34 + (CHOOSE i \in DOMAIN AsciiFrom35 : AsciiFrom35[i] = c)
    ELSE IF \E i \in DOMAIN AsciiFrom93 : AsciiFrom93[i] = c
    THEN 92 + (CHOOSE i \in DOMAIN AsciiFrom93 : AsciiFrom93[i] = c)
    ELSE 96 + (CHOOSE i \in DOMAIN AsciiFrom97 : AsciiFrom97[i] = c)

\* a < b for two strs.
str_lt(a, b) ==
    \E i \in 1..(Len(b)) :
       /\ i - 1 <= Len(a)
       /\ SubSeq(a, 1, i - 1) = SubSeq(b, 1, i - 1)
       /\ \/ i > Len(a)
          \/ ord(a[i]) < ord(b[i])

\* sorted(keys) for a set of strs, and sorted(indices) for a set of ints.
RECURSIVE sorted_strs(_)
sorted_strs(keys) ==
    IF keys = {} THEN <<>>
    ELSE LET least == CHOOSE k \in keys : \A o \in keys : o = k \/ str_lt(k, o)
         IN  <<least>> \o sorted_strs(keys \ {least})

RECURSIVE sorted_ints(_)
sorted_ints(indices) ==
    IF indices = {} THEN <<>>
    ELSE LET least == CHOOSE n \in indices : \A o \in indices : n <= o
         IN  <<least>> \o sorted_ints(indices \ {least})

\* settings.keys(): the keys of a dict.
dict_keys(d) == {d.entries[i][1] : i \in DOMAIN d.entries}

\* The strs the keys of the form are made of.
division_ == <<"d", "i", "v", "i", "s", "i", "o", "n", "_">>

type_array == <<"_", "t", "y", "p", "e", "[", "]">>

Fields == <<"type", "value", "format", "font", "size", "color">>

FieldName ==
    [type |-> <<"t", "y", "p", "e">>,
     value |-> <<"v", "a", "l", "u", "e">>,
     format |-> <<"f", "o", "r", "m", "a", "t">>,
     font |-> <<"f", "o", "n", "t">>,
     size |-> <<"s", "i", "z", "e">>,
     color |-> <<"c", "o", "l", "o", "r">>]

\* The defaults of lines 193-198.
FieldDefault ==
    [type |-> dataoutput, value |-> <<>>, format |-> placeholder,
     font |-> Jost, size |-> normal, color |-> black]

\* Lines 143-152: the division indices, from the keys that start with
\* 'division_' and hold '_type[]'.
division_indices(settings) ==
    {int_of_str(split(key, "_")[2]).n :
        key \in {k \in dict_keys(settings) :
                    /\ startswith(k, division_)
                    /\ contains(k, type_array)
                    /\ Len(split(k, "_")) >= 2
                    /\ int_of_str(split(k, "_")[2]).ok}}

\* A faulty variant of lines 160-165: the keys are matched by the prefix
\* f'division_{div_idx}' and the name of the field, so that the keys of
\* division 10 are among those of division 1.
field_keys_by_prefix(settings, div_idx, field) ==
    {k \in dict_keys(settings) :
        /\ startswith(k, division_ \o str_of_int(div_idx))
        /\ contains(k, <<"_">> \o FieldName[field] \o <<"[">>)}

\* Lines 160-165: the keys of a division for one field.
field_keys(settings, div_idx, field) ==
    LET stem == division_ \o str_of_int(div_idx) \o <<"_">> \o FieldName[field]
    IN  {k \in dict_keys(settings) :
            k = stem \o <<"[", "]">> \/ startswith(k, stem \o <<"[">>)}

\* Lines 171-178: the values under the keys, in the order given; a list is
\* spread out, a None is left out.
RECURSIVE collect(_, _)
collect(settings, keys) ==
    IF keys = <<>> THEN <<>>
    ELSE LET val == dict_get(settings, Head(keys))
         IN  (IF val.t = "list" THEN val.items
              ELSE IF val # PyNone THEN <<val.s>>
              ELSE <<>>)
             \o collect(settings, Tail(keys))

\* get_array_value(keys), lines 168-178.
get_array_value(settings, keys) == collect(settings, sorted_strs(keys))

max_len(arrays) ==
    CHOOSE n \in {Len(arrays[f]) : f \in DOMAIN arrays} :
        \A f \in DOMAIN arrays : Len(arrays[f]) <= n

\* Lines 160-200: the output lines of a division.
output_lines(settings, div_idx) ==
    LET arrays == [f \in {Fields[i] : i \in DOMAIN Fields} |->
                      get_array_value(settings, field_keys(settings, div_idx, f))]
    IN  [i \in 1..max_len(arrays) |->
            [f \in {Fields[j] : j \in DOMAIN Fields} |->
                IF i <= Len(arrays[f]) THEN arrays[f][i] ELSE FieldDefault[f]]]

\* The loop of lines 158-203 over the indices left.
RECURSIVE build_divisions(_, _)
build_divisions(settings, indices) ==
    IF indices = <<>> THEN <<>>
    ELSE (IF output_lines(settings, Head(indices)) # <<>>
          THEN <<[outputLines |-> output_lines(settings, Head(indices))]>>
          ELSE <<>>)
         \o build_divisions(settings, Tail(indices))

\* _parse_divisions(settings), lines 138-205.
parse_divisions(settings) ==
    build_divisions(settings, sorted_ints(division_indices(settings)))

\* The forms _parse_divisions is given.  What a form holds for one field of one
\* division is a list of keys, each the field's name with a suffix, '[]',
\* '[0]' or '[1]', and a value: a list of strs, a str or None.  It comes with
\* the array of strs it stands for: the values under '[0]', '[1]' and '[]', in
\* this order, a list spread out and a None left out.
Plain == <<"[", "]">>

Zeroth == <<"[", "0", "]">>

First == <<"[", "1", "]">>

NotGiven == [given |-> <<>>, array |-> <<>>]

AsList(items) == [given |-> << <<Plain, PyList(items)>> >>, array |-> items]

AsStr(s) == [given |-> << <<Plain, PyStr(s)>> >>, array |-> <<s>>]

AsNone == [given |-> << <<Plain, PyNone>> >>, array |-> <<>>]

Numbered(a, b, rest) ==
    [given |-> << <<Plain, PyList(rest)>>, <<First, PyStr(b)>>, <<Zeroth, PyStr(a)>> >>,
     array |-> <<a, b>> \o rest]

OnlyNumbered(a) == [given |-> << <<Zeroth, PyStr(a)>> >>, array |-> <<a>>]

NoDivision ==
    [type |-> NotGiven, value |-> NotGiven, format |-> NotGiven,
     font |-> NotGiven, size |-> NotGiven, color |-> NotGiven]

Shapes ==
    {NoDivision,
     [NoDivision EXCEPT !.type = AsList(<<title>>)],
     [NoDivision EXCEPT !.type = AsList(<<dataoutput, divider>>),
                        !.value = AsList(<< <<"a", ".", "b">> >>),
                        !.format = AsStr(<<"T", ":", " ">> \o placeholder),
                        !.font = AsList(<<>>),
                        !.size = AsNone,
                        !.color = AsList(<<red, red, red>>)],
     [NoDivision EXCEPT !.color = AsList(<<red>>)],
     [NoDivision EXCEPT !.type = AsList(<<>>)],
     [NoDivision EXCEPT !.type = OnlyNumbered(title),
                        !.value = AsList(<< <<"x">> >>)],
     [NoDivision EXCEPT !.type = Numbered(title, divider, <<dataoutput>>),
                        !.value = AsStr(<<"a", ".", "c", "d">>),
                        !.format = Numbered(placeholder, <<"n", "/", "a">>, <<>>),
                        !.font = AsList(<< <<"D", "o", "g", "i", "c", "a">> >>),
                        !.size = AsList(<<large>>),
                        !.color = AsStr(red)],
     [NoDivision EXCEPT !.type = AsList(<<>>),
                        !.value = AsList(<< <<"l", ".", "0">> >>)]}

\* The indices of the divisions of a form, with the numerals in its keys.
Numeral == (1 :> <<"1">>) @@ (2 :> <<"2">>) @@ (10 :> <<"1", "0">>)

FormIndices == <<10, 1, 2>>

\* The entries of the settings for one field of a division.
field_entries(n, field, given) ==
    [i \in DOMAIN given |->
        <<division_ \o Numeral[n] \o <<"_">> \o FieldName[field] \o given[i][1],
          given[i][2]>>]

division_entries(n, shape) ==
    field_entries(n, "type", shape.type.given)
    \o field_entries(n, "value", shape.value.given)
    \o field_entries(n, "format", shape.format.given)
    \o field_entries(n, "font", shape.font.given)
    \o field_entries(n, "size", shape.size.given)
    \o field_entries(n, "color", shape.color.given)

\* Entries that are no division of the form: the title of the page, and a
\* type key whose index is no number.
pageTitle == <<"p", "a", "g", "e", "T", "i", "t", "l", "e">>

OtherEntries ==
    << <<pageTitle, PyStr(<<" ", "H", "o", "m", "e">>)>>,
       <<division_ \o <<"x">> \o type_array, PyList(<<title>>)>> >>

Forms == [{FormIndices[i] : i \in DOMAIN FormIndices} -> Shapes]

form_entries(form, others) ==
    division_entries(FormIndices[1], form[FormIndices[1]])
    \o (IF others THEN OtherEntries ELSE <<>>)
    \o division_entries(FormIndices[2], form[FormIndices[2]])
    \o division_entries(FormIndices[3], form[FormIndices[3]])

ParseDivisions ==
    /\ nr_call.op = "none"
    /\ \E form \in Forms, others \in BOOLEAN :
          LET settings == PyDict(form_entries(form, others))
          IN  nr_call' = [op |-> "_parse_divisions",
                          form |-> form,
                          settings |-> settings,
                          divisions |-> parse_divisions(settings)]
    /\ UNCHANGED <<render_vars, locator_vars, font_vars>>

\* The keys and defaults of lines 30-32.
nodeRedUrl == <<"n", "o", "d", "e", "R", "e", "d", "U", "r", "l">>

endpointPath == <<"e", "n", "d", "p", "o", "i", "n", "t", "P", "a", "t", "h">>

timeout_key == <<"t", "i", "m", "e", "o", "u", "t">>

default_url ==
    <<"h", "t", "t", "p", ":", "/", "/", "l", "o", "c", "a", "l", "h", "o", "s", "t",
      ":", "1", "8", "8", "0">>

default_path == <<"/", "i", "n", "k", "y", "p", "i", "/", "d", "a", "t", "a">>

default_timeout == PyInt(10)

\* settings.get(key, default)
settings_get(settings, key, default) ==
    IF key \in dict_keys(settings) THEN dict_get(settings, key) ELSE default

\* int(x) for an int or a str.
int_of(x) == IF x.t = "int" THEN [ok |-> TRUE, n |-> x.n] ELSE int_of_str(x.s)

\* json.dumps(data, indent=2, ensure_ascii=False): the text of a document, kept
\* as the document it is the text of.
json_dumps(data) == [t |-> "str", json |-> data, indent |-> 2]

\* How the endpoint answers a request: requests.get raises Timeout,
\* ConnectionError or another RequestException, or returns a response, whose
\* status is an error for raise_for_status or not, and whose body is a JSON
\* document or none.
Answers ==
    {[raises |-> "Timeout", status |-> 0, json |-> PyNone, valid |-> FALSE],
     [raises |-> "ConnectionError", status |-> 0, json |-> PyNone, valid |-> FALSE],
     [raises |-> "InvalidURL", status |-> 0, json |-> PyNone, valid |-> FALSE],
     [raises |-> "None", status |-> 500, json |-> PyNone, valid |-> FALSE],
     [raises |-> "None", status |-> 200, json |-> PyNone, valid |-> FALSE],
     [raises |-> "None", status |-> 200, json |-> Doc1, valid |-> TRUE],
     [raises |-> "None", status |-> 200, json |-> Doc3, valid |-> TRUE]}

\* The device: its resolution, its orientation, and whether render_image
\* returns an image or raises.
Devices ==
    [resolution : {<<800, 480>>},
     orientation : {"horizontal", "vertical"},
     renders : BOOLEAN]

\* How a call of generate_image ends: the exception that leaves it, the
\* requests made, and the image returned.
NoRender == [dimensions |-> NoDimensions, template_params |-> <<>>]

Ended(raised, requests, image) ==
    [raised |-> raised, requests |-> requests, image |-> image]

\* Lines 69-115: from the document to the image.
generate_image_render(settings, device, data, full_url, requests) ==
    LET resolution == device.resolution
        dimensions == IF device.orientation = "vertical"
                      THEN <<resolution[2], resolution[1]>>
                      ELSE resolution
        page_title == strip(settings_get(settings, pageTitle, PyStr(<<>>)).s)
        divisions == parse_divisions(settings)
        processed_divisions ==
            [d \in DOMAIN divisions |->
                [outputLines |->
                    [i \in DOMAIN divisions[d].outputLines |->
                        process_output_line(divisions[d].outputLines[i], data)]]]
        template_params ==
            IF divisions = <<>>
            THEN [page_title |-> page_title,
                  divisions |-> <<>>,
                  json_fallback |-> json_dumps(data),
                  endpoint_url |-> full_url,
                  plugin_settings |-> settings]
            ELSE [page_title |-> page_title,
                  divisions |-> processed_divisions,
                  endpoint_url |-> full_url,
                  plugin_settings |-> settings]
    IN  IF device.renders
        THEN Ended("None", requests,
                   [dimensions |-> dimensions, template_params |-> template_params])
        ELSE Ended("RuntimeError", requests, NoRender)

\* Lines 47-136: the request and what the handlers make of its outcome.  Every
\* exception raised in the try block leaves as a RuntimeError.
generate_image_fetch(settings, device, answer, full_url, timeout) ==
    LET requests == <<[url |-> full_url, timeout |-> timeout]>>
    IN  IF answer.raises # "None" THEN Ended("RuntimeError", requests, NoRender)
        ELSE IF answer.status >= 400 THEN Ended("RuntimeError", requests, NoRender)
        ELSE IF ~answer.valid THEN Ended("RuntimeError", requests, NoRender)
        ELSE generate_image_render(settings, device, answer.json, full_url, requests)

\* generate_image(settings, device_config), lines 18-136, for settings whose
\* values are strs, but the timeout, which is a str or an int.
generate_image(settings, device, answer) ==
    LET node_red_url ==
            rstrip_chars(strip(settings_get(settings, nodeRedUrl, PyStr(default_url)).s),
                         {"/"})
        endpoint_path == strip(settings_get(settings, endpointPath, PyStr(default_path)).s)
        timeout == int_of(settings_get(settings, timeout_key, default_timeout))
    IN  IF ~timeout.ok THEN Ended("ValueError", <<>>, NoRender)
        ELSE IF node_red_url = <<>> THEN Ended("RuntimeError", <<>>, NoRender)
        ELSE IF endpoint_path = <<>> THEN Ended("RuntimeError", <<>>, NoRender)
        ELSE generate_image_fetch(settings, device, answer,
                                  node_red_url \o endpoint_path, timeout.n)

\* The settings generate_image is given: the URL, the path and the timeout,
\* each given or not, and a form with or without divisions.
NotSet == [t |-> "not set"]

Urls ==
    {NotSet, PyStr(<<>>), PyStr(<<" ">>), PyStr(<<"/">>),
     PyStr(<<"h", "t", "t", "p", ":", "/", "/", "n", "r", "/">>)}

EndpointPaths == {NotSet, PyStr(<<>>), PyStr(<<" ">>), PyStr(<<"/", "d">>)}

TimeoutSettings ==
    {NotSet, PyStr(<<"5">>), PyStr(<<"a", "b", "c">>), PyStr(<<>>), PyInt(3)}

NoDivisions == [n \in {FormIndices[i] : i \in DOMAIN FormIndices} |-> NoDivision]

SomeDivisions ==
    [NoDivisions EXCEPT
        ![1] = [NoDivision EXCEPT !.type = AsList(<<title, dataoutput>>),
                                  !.value = AsList(<< <<" ", "H", "i">>,
                                                      <<"a", ".", "b">> >>)]]

setting(key, value) == IF value = NotSet THEN <<>> ELSE << <<key, value>> >>

GenerateImage ==
    /\ nr_call.op = "none"
    /\ \E url \in Urls, path \in EndpointPaths, timeout \in TimeoutSettings,
          form \in {NoDivisions, SomeDivisions},
          device \in Devices, answer \in Answers :
          LET settings == PyDict(setting(nodeRedUrl, url)
                                 \o setting(endpointPath, path)
                                 \o setting(timeout_key, timeout)
                                 \o form_entries(form, TRUE))
          IN  nr_call' = [op |-> "generate_image",
                          settings |-> settings,
                          url |-> url,
                          path |-> path,
                          timeout |-> timeout,
                          device |-> device,
                          answer |-> answer,
                          ended |-> generate_image(settings, device, answer)]
    /\ UNCHANGED <<render_vars, locator_vars, font_vars>>

\* The caller takes the result and goes on.
NodeRedReturn ==
    /\ nr_call.op # "none"
    /\ nr_call' = NoNrCall
    /\ UNCHANGED <<render_vars, locator_vars, font_vars>>

NodeRedNext ==
    \/ GenerateImage
    \/ ExtractJsonValue
    \/ ProcessOutputLine
    \/ ParseDivisions
    \/ NodeRedReturn

NodeRedSpec == Init /\ [][NodeRedNext]_vars

---------------------------------------------------------------------------
\* What the properties below speak of.

Returned(op) == pc = "returned" /\ last.op = op

RenderCall == pc = "returned" /\ last.op \in {"take_screenshot", "take_screenshot_html"}

Logged(e) == \E i \in DOMAIN last.log : last.log[i] = e

Tried(tier) == {i \in DOMAIN last.attempts : last.attempts[i].tier = tier}

\* The number a browser reads from the decimal digits s.
RECURSIVE Number(_)
Number(s) ==
    IF s = <<>> THEN 0
    ELSE 10 * Number(SubSeq(s, 1, Len(s) - 1)) + s[Len(s)]

Handed(tier) == {i \in DOMAIN last.given : last.given[i].tier = tier}

Unchanged ==
    /\ playwright_available = last.before.avail
    /\ playwright_browser = last.before.browser
    /\ engines = last.before.engines
    /\ browsers = last.before.browsers
    /\ starts = last.before.starts
    /\ probes = last.before.probes

---------------------------------------------------------------------------
\* C1.  When take_screenshot or take_screenshot_html returns, none of the
\* temporary files the call created (the staged .html file, the reserved .png
\* file) exists any more, whatever the exit path.
NoTempFileLeft == RenderCall => last.created \cap last.disk = {}

\* C2.  Within one take_screenshot or take_screenshot_html call the embedded
\* backend is attempted at most once and the subprocess backend at most once.
EachTierAtMostOnce ==
    RenderCall => /\ Cardinality(Tried("playwright")) <= 1
                  /\ Cardinality(Tried("chromium")) <= 1

\* C3.  When the engine is available and the embedded attempt of a call ends
\* without an image, the subprocess backend is then attempted exactly once and
\* the call returns what that attempt produced.  Stated for the calls in which
\* no exception reached the except clause of take_screenshot_html or
\* take_screenshot, the staging of the HTML file having succeeded.
FallbackResultIsSubprocessResult ==
    ( /\ RenderCall
      /\ playwright_available = "True"
      /\ last.attempts # <<>>
      /\ last.attempts[1] = [tier |-> "playwright", image |-> NoImage]
      /\ ~Logged("except") )
    => /\ Cardinality(Tried("chromium")) = 1
       /\ \A i \in Tried("chromium") : last.image = last.attempts[i].image

\* C4.  With the engine available, an embedded attempt that yields an image
\* ends the call with that image: no later attempt, no locator lookup, no .png
\* file, no child process; an image from the call's first attempt makes it the
\* only attempt; and the first attempt of such a call is the embedded one.
EmbeddedImageReturnedAtOnce ==
    RenderCall =>
      /\ \A i \in Tried("playwright") :
            last.attempts[i].image # NoImage =>
               /\ i = Len(last.attempts)
               /\ last.image = last.attempts[i].image
               /\ ~Logged("which") /\ ~Logged("mktemp_png") /\ ~Logged("run")
      /\ (playwright_available = "True" /\ last.attempts # <<>>) =>
            last.attempts[1].tier = "playwright"

EmbeddedImageReturnedAtOnceWitness ==
    /\ RenderCall
    /\ Len(last.attempts) = 1
    /\ last.attempts[1].tier = "playwright"
    /\ last.image # NoImage
    /\ last.image = last.attempts[1].image

\* C5.  With the engine reported unavailable, a render call never enters the
\* embedded backend (no session acquired, no engine started, no context opened):
\* every attempt is a subprocess attempt, and the .png file and the child
\* process come only after the locator was consulted.
UnavailableMeansSubprocessOnly ==
    (RenderCall /\ playwright_available = "False") =>
      /\ Tried("playwright") = {}
      /\ ~Logged("playwright") /\ ~Logged("start") /\ ~Logged("launch")
      /\ ~Logged("new_context")
      /\ last.contexts = 0
      /\ starts = last.before.starts
      /\ \A i \in DOMAIN last.log :
            last.log[i] \in {"mktemp_png", "run"} =>
               \E j \in 1..(i - 1) : last.log[j] = "which"
      /\ last.op = "take_screenshot" =>
            /\ Len(last.attempts) = 1
            /\ Logged("which")

UnavailableMeansSubprocessOnlyWitness ==
    /\ RenderCall
    /\ playwright_available = "False"
    /\ last.image.by = "chromium"
    /\ Logged("which")

\* C6.  No exception leaves take_screenshot or take_screenshot_html.
NoExceptionEscapes == RenderCall => ~last.raised

NoExceptionEscapesWitness ==
    /\ RenderCall
    /\ Logged("except")
    /\ Logged("run")
    /\ ~last.raised
    /\ last.image = NoImage

\* C7.  At most one browser is alive; a _get_playwright_browser call made
\* after one that returned a session, with no _cleanup_playwright call between
\* the two, returns that same session and launches nothing; and no call but
\* _cleanup_playwright replaces or drops a session the singleton holds.
SingletonSession ==
    /\ Cardinality(browsers) <= 1
    /\ (Returned("_get_playwright_browser") /\ last.before.acquired # 0) =>
          /\ last.session = last.before.acquired
          /\ ~Logged("start") /\ ~Logged("launch")
          /\ Unchanged
    /\ (pc = "returned" /\ last.before.browser # 0
          /\ last.op # "_cleanup_playwright") =>
          /\ playwright_browser = last.before.browser
          /\ starts = last.before.starts
          /\ browsers = last.before.browsers

SingletonSessionWitness ==
    /\ Returned("_get_playwright_browser")
    /\ last.before.acquired # 0
    /\ last.session = last.before.acquired
    /\ browsers = {last.session}

\* C8.  After _cleanup_playwright returns the singleton is cleared, also when
\* browser.close() or playwright.stop() failed.
CleanupClearsSingleton == Returned("_cleanup_playwright") => playwright_browser = 0

\* C9.  _cleanup_playwright never raises; called with no session it changes
\* nothing; called right after another _cleanup_playwright call it finds no
\* session and closes and stops nothing again.
CleanupIdempotent ==
    Returned("_cleanup_playwright") =>
      /\ ~last.raised
      /\ last.before.browser = 0 => (Unchanged /\ last.log = <<>>)
      /\ previous = "_cleanup_playwright" =>
            /\ last.before.browser = 0
            /\ Unchanged
            /\ ~Logged("close") /\ ~Logged("stop")

\* C10.  The library is imported at most once in a process: a call made with
\* the cached flag set imports nothing and leaves the flag as it is, and
\* _check_playwright_available returns the cached value.
ProbedAtMostOnce ==
    /\ probes <= 1
    /\ (playwright_available = "None") <=> (probes = 0)
    /\ (pc = "returned" /\ last.before.avail # "None") =>
          /\ ~Logged("import")
          /\ playwright_available = last.before.avail
    /\ (Returned("_check_playwright_available") /\ last.before.avail # "None") =>
          last.value = (last.before.avail = "True")

ProbedAtMostOnceWitness ==
    /\ Returned("_check_playwright_available")
    /\ previous = "_check_playwright_available"
    /\ last.before.avail = "False"
    /\ last.value = FALSE
    /\ probes = 1

\* C11.  When _take_screenshot_html_playwright returns, no file it wrote the
\* page to exists any more: after a render that produced an image, after a
\* render in which a step following the write raised (the context not opened,
\* or opened and the navigation, the capture or the decoding failing), and
\* after one whose image was assigned and whose context.close() raised.
WrittenHtmlFileDeleted ==
    Returned("_take_screenshot_html_playwright") =>
      /\ last.written \cap last.disk = {}
      /\ ~last.raised

WrittenHtmlFileDeletedWitness ==
    /\ Returned("_take_screenshot_html_playwright")
    /\ last.written # {}
    /\ last.disk = {}
    /\ Logged("new_context")
    /\ last.image = NoImage

\* C12.  In a render call that ran the child process, a non-zero exit code or
\* a missing output file makes the subprocess attempt, and the call, end
\* without an image; the subprocess attempt yields an image only when the exit
\* code was 0, the output file existed and it was decoded, and that image is
\* what the call returns.
SubprocessImageOnlyOnSuccess ==
    (RenderCall /\ Logged("run")) =>
      /\ Cardinality(Tried("chromium")) = 1
      /\ (Logged("returncode_nonzero") \/ Logged("missing")) =>
            /\ last.image = NoImage
            /\ \A i \in Tried("chromium") : last.attempts[i].image = NoImage
      /\ \A i \in Tried("chromium") :
            last.attempts[i].image # NoImage =>
               /\ Logged("returncode_0") /\ Logged("exists") /\ Logged("decoded")
               /\ ~Logged("returncode_nonzero") /\ ~Logged("missing")
               /\ last.image = last.attempts[i].image
      /\ last.image.by = "chromium" =>
            \E i \in Tried("chromium") : last.attempts[i].image = last.image

SubprocessImageOnlyOnSuccessWitness ==
    /\ RenderCall
    /\ Logged("run") /\ Logged("returncode_0") /\ Logged("exists")
    /\ Logged("decoded")
    /\ last.image.by = "chromium"

\* C13.  In a render call whose locator found no browser binary, no output
\* file is created and no child process is run, the subprocess attempt and the
\* call end without an image; and a take_screenshot_html call made with the
\* engine unavailable that found no binary returns None with the HTML file it
\* staged removed.
NoBinaryNoChildProcess ==
    (RenderCall /\ Logged("no_browser")) =>
      /\ ~Logged("mktemp_png") /\ ~Logged("run")
      /\ Cardinality(Tried("chromium")) = 1
      /\ \A i \in Tried("chromium") : last.attempts[i].image = NoImage
      /\ last.image = NoImage
      /\ ~last.raised
      /\ (last.op = "take_screenshot_html" /\ playwright_available = "False") =>
            /\ last.written # {}
            /\ last.disk = {}
            /\ ~Logged("except")
      /\ (last.op = "take_screenshot" /\ playwright_available = "False") =>
            last.created = {}

NoBinaryNoChildProcessWitness ==
    /\ Returned("take_screenshot_html")
    /\ playwright_available = "False"
    /\ Logged("no_browser")
    /\ last.image = NoImage
    /\ last.written # {}
    /\ last.disk = {}

\* C14.  A _find_chromium_binary call returns what shutil.which resolves the
\* first of chromium-headless-shell, chromium, chrome, google-chrome that is
\* on PATH to; when none is on PATH and the host is Darwin, the first of the
\* two bundle paths, in their listed order, that is an executable file; and
\* None otherwise.  The result depends on the PATH and filesystem state alone,
\* and the call changes neither that state nor the state of the module.
LocatorFirstMatch ==
    [][ found' # found =>
          LET onpath == {i \in 1..4 : host.which[path_candidates[i]] # "None"}
              bundles == {i \in 1..2 : app_paths[i] \in host.apps}
              first(S) == CHOOSE i \in S : \A j \in S : i <= j
          IN  /\ found'.on = host
              /\ host' = host
              /\ UNCHANGED render_vars
              /\ found'.path =
                    IF onpath # {}
                    THEN host.which[path_candidates[first(onpath)]]
                    ELSE IF host.darwin /\ bundles # {}
                         THEN app_paths[first(bundles)]
                         ELSE "None" ]_vars

LocatorFirstMatchWitness ==
    /\ found.on = host
    /\ host.darwin
    /\ host.apps = {app_paths[1], app_paths[2]}
    /\ \A c \in DOMAIN host.which : host.which[c] = "None"
    /\ found.path = app_paths[1]

\* C15.  When _take_screenshot_playwright or _take_screenshot_html_playwright
\* returns, every browsing context the call opened has been closed, whether
\* the render produced an image or failed, and no browser that was open before
\* the call has been closed.
ContextsClosedOnReturn ==
    (pc = "returned" /\ last.op \in {"_take_screenshot_playwright",
                                     "_take_screenshot_html_playwright"}) =>
      /\ last.contexts = 0
      /\ last.before.browsers \subseteq browsers

\* C16.  A take_screenshot or take_screenshot_html call made with a timeout
\* returns: it is never left waiting for ever, in the embedded tier or in the
\* subprocess tier.
TimeoutBoundsTheCall ==
    (pc = "blocked" /\ last.op \in {"take_screenshot", "take_screenshot_html"}) =>
      last.timeout_ms = 0

\* C18.  At most one engine is started and not stopped, and a running engine
\* is the one the singleton holds: an acquire never starts an engine while an
\* earlier one is still running.
AtMostOneEngine ==
    /\ Cardinality(engines) <= 1
    /\ engines \subseteq {playwright_browser}

\* C17.  Every backend a take_screenshot or take_screenshot_html call attempts
\* is handed the request of the caller: each context is opened with the
\* requested width and height as its viewport and device scale factor 1, each
\* command line carries the requested width and height as its window size,
\* and the timeout a backend is given is the one requested (a page rendered
\* to an image and every command line were given it) -- in the first attempt
\* and in the attempts made after falling back.
RequestReachesBackends ==
    RenderCall =>
      /\ \A i \in DOMAIN last.given :
            LET g == last.given[i]
            IN  IF g.tier = "playwright"
                THEN /\ g.width = last.dimensions[1]
                     /\ g.height = last.dimensions[2]
                     /\ g.device_scale_factor = 1
                     /\ g.timeout \in {0, last.timeout_ms}
                ELSE /\ Number(g.window_size[1]) = last.dimensions[1]
                     /\ Number(g.window_size[2]) = last.dimensions[2]
                     /\ (last.timeout_ms = 0) <=> (g.flag_timeout = <<>>)
                     /\ Number(g.flag_timeout) = last.timeout_ms
      /\ Cardinality(Handed("playwright")) =
            Cardinality({i \in DOMAIN last.log : last.log[i] = "new_context"})
      /\ Cardinality(Handed("chromium")) =
            Cardinality({i \in DOMAIN last.log : last.log[i] = "run"})
      /\ last.image.by \in {"playwright", "playwright_html"} =>
            /\ last.given # <<>>
            /\ last.given[Len(last.given)].tier = "playwright"
            /\ last.given[Len(last.given)].timeout = last.timeout_ms

RequestReachesBackendsWitness ==
    /\ Returned("take_screenshot_html")
    /\ last.timeout_ms # 0
    /\ Handed("playwright") # {}
    /\ Handed("chromium") # {}
    /\ last.image.by = "chromium"
    /\ last.image.width = last.dimensions[1]

\* C19.  Once _DISCOVERED_FONTS holds a table, _discover_fonts, get_font and
\* get_fonts do not scan the fonts directory and leave the cache as it is,
\* whatever the directory holds by then, and _discover_fonts returns the
\* cached table; a call that finds no cache scans; reload_fonts always scans,
\* and the cache it leaves is a table a scan of the directory as it is now
\* yields.
DiscoveryCachedUntilReload ==
    /\ (font_call.op \in {"_discover_fonts", "get_font", "get_fonts"}
          /\ ~font_call.before.is_none) =>
          /\ ~font_call.scanned
          /\ DISCOVERED_FONTS = font_call.before
          /\ font_call.op = "_discover_fonts" =>
                font_call.families = font_call.before.families
    /\ (font_call.op \in {"_discover_fonts", "get_font", "get_fonts"}
          /\ font_call.before.is_none) =>
          /\ font_call.scanned
          /\ ~DISCOVERED_FONTS.is_none
          /\ DISCOVERED_FONTS.families \in Scan(fonts_dir)
    /\ font_call.op = "reload_fonts" =>
          /\ font_call.scanned
          /\ ~DISCOVERED_FONTS.is_none
          /\ DISCOVERED_FONTS.families \in Scan(fonts_dir)

DiscoveryCachedUntilReloadWitness ==
    /\ font_call.op = "_discover_fonts"
    /\ ~font_call.before.is_none
    /\ font_call.before.families \notin Scan(fonts_dir)
    /\ font_call.families = font_call.before.families
    /\ ~font_call.scanned

\* C20.  The dict FONT_FAMILIES keeps the value of its literal: after any
\* sequence of get_font, get_fonts and reload_fonts calls every hardcoded
\* family lists its original variants and no others.
HardcodedFamiliesUnchanged == FONT_FAMILIES = FontFamiliesLiteral

NodeRedCall(op) == nr_call.op = op

\* C22.  Nothing but a RuntimeError leaves generate_image, whatever the settings
\* and the answer of the endpoint are, and with an empty nodeRedUrl or
\* endpointPath a RuntimeError is raised and no HTTP request is made.
OnlyRuntimeErrorLeaves ==
    NodeRedCall("generate_image") =>
      /\ nr_call.ended.raised \in {"None", "RuntimeError"}
      /\ nr_call.url = PyStr(<<>>) \/ nr_call.path = PyStr(<<>>) =>
           /\ nr_call.ended.raised = "RuntimeError"
           /\ nr_call.ended.requests = <<>>

\* The integer a piece of a key path denotes as an index, for the pieces that
\* denote one.
IndexOf ==
    (<<"0">> :> 0) @@ (<<"1">> :> 1) @@ (<<"0", "1">> :> 1) @@ (<<"-", "1">> :> 0 - 1)

\* What a value holds under a piece of a key path: the entry of a dict with
\* that key, the element of a list at that index, and None wherever there is
\* no such thing.
Under(v, piece) ==
    IF v.t = "dict"
    THEN IF \E e \in {v.entries[i] : i \in DOMAIN v.entries} : e[1] = piece
         THEN (CHOOSE e \in {v.entries[i] : i \in DOMAIN v.entries} : e[1] = piece)[2]
         ELSE PyNone
    ELSE IF v.t = "list" /\ piece \in DOMAIN IndexOf
            /\ IndexOf[piece] \in 0..(Len(v.items) - 1)
    THEN v.items[IndexOf[piece] + 1]
    ELSE PyNone

\* The value at the end of a path, None as soon as a step finds nothing.
RECURSIVE ValueAt(_, _)
ValueAt(data, path) ==
    IF path = <<>> THEN data
    ELSE Under(ValueAt(data, SubSeq(path, 1, Len(path) - 1)), path[Len(path)])

\* C23.  _extract_json_value returns the value at the end of the dot-separated
\* key path, going through dicts by key and through lists by an index within
\* 0..len-1; it returns None for the empty key path and when a step of the
\* path finds a missing key, a piece that is no index or an index out of
\* range, a scalar, or a JSON null.
ExtractFollowsThePath ==
    NodeRedCall("_extract_json_value") =>
      /\ nr_call.key_path = <<>> => nr_call.value = PyNone
      /\ nr_call.key_path # <<>> =>
           nr_call.value = ValueAt(nr_call.data, nr_call.path)
      /\ \A k \in 0..(Len(nr_call.path) - 1) :
           ValueAt(nr_call.data, SubSeq(nr_call.path, 1, k)).t
               \in {"None", "str", "int", "bool"}
           => nr_call.value = PyNone

ExtractFollowsThePathWitness ==
    /\ NodeRedCall("_extract_json_value")
    /\ nr_call.data = Doc1
    /\ nr_call.path = << <<"l">>, <<"0">>, <<"b">> >>
    /\ nr_call.value = PyInt(1)

\* The text str() gives for what a document holds at each of the key paths of
\* Cores, for the key paths that lead to a value.
TextAt(json_data) ==
    IF json_data = Doc1
    THEN (<<"a", ".", "b">> :> <<"2", "1">>)
         @@ (<<"a", ".", "c", "d">> :> <<"[", "'", "x", "'", "]">>)
         @@ (<<"l", ".", "0">> :> <<"{", "'", "b", "'", ":", " ", "1", "}">>)
    ELSE (<<"0", ".", "1">> :> <<" ", "x">>)
         @@ (<<"1", ".", "0">> :> <<"T", "r", "u", "e">>)

Shown(json_data, key_path) ==
    IF key_path \in DOMAIN TextAt(json_data) THEN TextAt(json_data)[key_path]
    ELSE not_found

\* A template with the text shown in each of its placeholders.
RECURSIVE Filled(_, _)
Filled(template, shown) ==
    IF template = <<>> THEN <<>>
    ELSE (IF Head(template).kind = "hole" THEN shown ELSE Head(template).text)
         \o Filled(Tail(template), shown)

CarriedOver ==
    \A k \in {"font", "size", "color"} \cap DOMAIN nr_call.line :
        nr_call.processed_line[k] = nr_call.line[k]

\* C24 as stated.  A 'title' line displays its value verbatim, a 'divider' line
\* the empty string, a 'dataoutput' line its format string with every
\* '{value}' replaced by the extracted value or by '??'; font, size and color
\* are carried over.
LineDisplayedVerbatim ==
    NodeRedCall("_process_output_line") =>
      LET line == nr_call.line
          processed_line == nr_call.processed_line
      IN  /\ line.type = title => processed_line.display_text = line.value
          /\ line.type = divider => processed_line.display_text = <<>>
          /\ line.type = dataoutput =>
               processed_line.display_text =
                   nr_call.blanks[1]
                   \o Filled(nr_call.template, Shown(nr_call.json_data, nr_call.core))
                   \o nr_call.blanks[2]
          /\ CarriedOver

\* C24, amended.  A 'title' line displays its value without the whitespace
\* before and after it, a 'divider' line the empty string, a 'dataoutput' line
\* its format string without the whitespace before and after it and with every
\* '{value}' replaced by the text of the value found at the key path, which is
\* the value of the line without the whitespace around it, or by '??' when
\* nothing is found there; font, size and color are carried over.
LineDisplayedStripped ==
    NodeRedCall("_process_output_line") =>
      LET line == nr_call.line
          processed_line == nr_call.processed_line
      IN  /\ line.type = title => processed_line.display_text = nr_call.core
          /\ line.type = divider => processed_line.display_text = <<>>
          /\ line.type = dataoutput =>
               processed_line.display_text =
                   Filled(nr_call.template, Shown(nr_call.json_data, nr_call.core))
          /\ CarriedOver

LineDisplayedStrippedWitness ==
    /\ NodeRedCall("_process_output_line")
    /\ nr_call.line.type = dataoutput
    /\ nr_call.line.value = <<" ", "a", ".", "b", " ">>
    /\ nr_call.line.format = <<" ", "{", "v", "a", "l", "u", "e", "}", "/",
                               "{", "v", "a", "l", "u", "e", "}", " ">>
    /\ nr_call.json_data = Doc1
    /\ nr_call.processed_line.display_text = <<"2", "1", "/", "2", "1">>

\* The number of lines the form holds for division n: the length of the
\* longest of its six arrays.
LinesOf(shape) ==
    CHOOSE m \in {Len(shape[f].array) : f \in DOMAIN shape} :
        \A f \in DOMAIN shape : Len(shape[f].array) <= m

\* The divisions of the form that are to come out: those with a type key of
\* suffix '[]' and at least one line.
ComesOut(form) ==
    {n \in DOMAIN form :
        /\ \E i \in DOMAIN form[n].type.given : form[n].type.given[i][1] = Plain
        /\ LinesOf(form[n]) > 0}

\* C25.  _parse_divisions returns one division for each index of the form that
\* has a 'division_<n>_type[]' key and at least one line, in ascending order
\* of the indices; the division of index n has as many output lines as the
\* longest of the six arrays of n, and line i holds the i-th string of each
\* array, or the default of the field where the array is shorter, so that it
\* holds nothing of another index.
DivisionsInOrderWithDefaults ==
    NodeRedCall("_parse_divisions") =>
      LET form == nr_call.form
          divisions == nr_call.divisions
          place(n) == 1 + Cardinality({m \in ComesOut(form) : m < n})
      IN  /\ Len(divisions) = Cardinality(ComesOut(form))
          /\ \A n \in ComesOut(form) :
                LET lines == divisions[place(n)].outputLines
                IN  /\ Len(lines) = LinesOf(form[n])
                    /\ \A i \in DOMAIN lines :
                         \A f \in DOMAIN form[n] :
                            lines[i][f] =
                               IF i <= Len(form[n][f].array)
                               THEN form[n][f].array[i]
                               ELSE FieldDefault[f]

DivisionsInOrderWithDefaultsWitness ==
    /\ NodeRedCall("_parse_divisions")
    /\ ComesOut(nr_call.form) = {1, 2, 10}
    /\ LinesOf(nr_call.form[1]) = 1
    /\ LinesOf(nr_call.form[2]) = 3
    /\ LinesOf(nr_call.form[10]) = 3
    /\ Len(nr_call.divisions) = 3
    /\ Len(nr_call.divisions[1].outputLines) = 1
    /\ nr_call.divisions[3].outputLines[3].type = dataoutput

====
